---- MODULE Spec2Model ----
(***************************************************************************)
(* Model of crates/bevy_asset_preview: the priority load queue and         *)
(* concurrency-bounded AssetLoader (asset/loader.rs, asset/task.rs,         *)
(* asset/priority.rs), the UI-side fallbacks (ui/mod.rs) and the           *)
(* resolution-aware PreviewCache (preview/cache.rs).                       *)
(*                                                                         *)
(* Option<T> is modelled as a sequence: None == <<>>, Some(x) == <<x>>.    *)
(* Strings that the code inspects character by character (file names) are *)
(* sequences of one-character strings.                                     *)
(***************************************************************************)
EXTENDS Integers, Sequences, FiniteSets, TLC

None == <<>>

Some(x) == <<x>>

Range(s) == {s[i] : i \in 1..Len(s)}

\* number of occurrences of k in the sequence s
Count(s, k) == Cardinality({i \in 1..Len(s) : s[i] = k})

(***************************************************************************)
(* Character strings (std::str) as used by cache.rs                        *)
(***************************************************************************)

\* str::rfind(ch): index of the last occurrence, 0 when absent
rfind(s, ch) ==
    LET hits == {i \in 1..Len(s) : s[i] = ch}
    IN  IF hits = {} THEN 0 ELSE CHOOSE i \in hits : \A j \in hits : j <= i

\* str::find(ch): index of the first occurrence, 0 when absent
find(s, ch) ==
    LET hits == {i \in 1..Len(s) : s[i] = ch}
    IN  IF hits = {} THEN 0 ELSE CHOOSE i \in hits : \A j \in hits : i <= j

DigitChars == <<"0", "1", "2", "3", "4", "5", "6", "7", "8", "9">>

is_ascii_digit(c) == \E d \in 1..10 : DigitChars[d] = c

DigitVal(c) == (CHOOSE d \in 1..10 : DigitChars[d] = c) - 1

\* Display for u32 (the "{}" of format!): canonical decimal digits
RECURSIVE format_u32(_)
format_u32(n) ==
    IF n < 10 THEN <<DigitChars[n + 1]>>
    ELSE format_u32(n \div 10) \o <<DigitChars[(n % 10) + 1]>>

RECURSIVE DigitsValue(_)
DigitsValue(s) ==
    IF s = <<>> THEN 0
    ELSE 10 * DigitsValue(SubSeq(s, 1, Len(s) - 1)) + DigitVal(s[Len(s)])

\* u32::MAX = 4294967295, kept as digits
U32MaxDigits == <<"4", "2", "9", "4", "9", "6", "7", "2", "9", "5">>

RECURSIVE StripZeros(_)
StripZeros(s) == IF s # <<>> /\ s[1] = "0" THEN StripZeros(Tail(s)) ELSE s

\* digit strings of equal length: a > b
RECURSIVE DigitsGreater(_, _)
DigitsGreater(a, b) ==
    IF a = <<>> THEN FALSE
    ELSE IF DigitVal(a[1]) # DigitVal(b[1]) THEN DigitVal(a[1]) > DigitVal(b[1])
    ELSE DigitsGreater(Tail(a), Tail(b))

OverflowsU32(s) ==
    LET t == StripZeros(s)
    IN  \/ Len(t) > Len(U32MaxDigits)
        \/ Len(t) = Len(U32MaxDigits) /\ DigitsGreater(t, U32MaxDigits)

\* str::parse::<u32>(): optional leading '+', then one or more digits, no overflow
parse_u32(s) ==
    LET body == IF s # <<>> /\ s[1] = "+" THEN Tail(s) ELSE s
    IN  IF body = <<>> \/ \E i \in 1..Len(body) : ~is_ascii_digit(body[i]) THEN None
        ELSE IF OverflowsU32(body) THEN None
        ELSE Some(DigitsValue(body))

(***************************************************************************)
(* Asset paths.  An AssetPath has a source, a path (a sequence of          *)
(* components, each a character string) and a label.  DefaultSource and    *)
(* NoLabel stand for AssetSourceId::Default and a missing label.           *)
(***************************************************************************)

DefaultSource == "default"

NoLabel == "nolabel"

ParentDir == <<".", ".">>

\* AssetPath::from(PathBuf) / AssetPath::from(String) on a plain path
AssetPathFrom(comps) == [source |-> DefaultSource, path |-> comps, label |-> NoLabel]

\* Path::file_name(): the last component unless the path is empty or ends in ".."
file_name(comps) ==
    IF comps = <<>> \/ comps[Len(comps)] = ParentDir THEN None
    ELSE Some(comps[Len(comps)])

\* Path::parent(): the path without its last component
parent(comps) ==
    IF comps = <<>> THEN None ELSE Some(SubSeq(comps, 1, Len(comps) - 1))

\* Path::join(name) for a single file name (joining "" adds no component)
join(dir, name) == IF name = <<>> THEN dir ELSE Append(dir, name)

\* "_{res}x{res}"
ResSuffix(resolution) == <<"_">> \o format_u32(resolution) \o <<"x">> \o format_u32(resolution)

cache_path_for_resolution(path, resolution) ==
    LET path_buf == path.path
        fname    == file_name(path_buf)
    IN  IF fname # None
        THEN LET fnm     == fname[1]
                 dot_pos == rfind(fnm, ".")
                 new_file_name ==
                     IF dot_pos # 0
                     THEN SubSeq(fnm, 1, dot_pos - 1) \o ResSuffix(resolution)
                              \o SubSeq(fnm, dot_pos, Len(fnm))
                     ELSE fnm \o ResSuffix(resolution)
             IN  AssetPathFrom(join(parent(path_buf)[1], new_file_name))
        ELSE \* no file name: the suffix is appended to the path string
             IF path_buf = <<>> THEN AssetPathFrom(<<ResSuffix(resolution)>>)
             ELSE AssetPathFrom(Append(SubSeq(path_buf, 1, Len(path_buf) - 1),
                                       path_buf[Len(path_buf)] \o ResSuffix(resolution)))

\* the tail of parse_resolution_suffix: both numbers parsed, equal, and the
\* height text all digits
SquareResolution(width, height, height_str) ==
    IF width # None /\ height # None
       /\ width[1] = height[1]
       /\ \A i \in 1..Len(height_str) : is_ascii_digit(height_str[i])
    THEN Some(width[1])
    ELSE None

parse_resolution_suffix(suffix) ==
    LET x_pos == find(suffix, "x")
    IN  IF x_pos = 0 THEN None
        ELSE SquareResolution(parse_u32(SubSeq(suffix, 1, x_pos - 1)),
                              parse_u32(SubSeq(suffix, x_pos + 1, Len(suffix))),
                              SubSeq(suffix, x_pos + 1, Len(suffix)))

\* the result of extract_resolution_from_filename once the suffix is parsed
WithResolution(original, resolution) ==
    IF resolution = None THEN None ELSE Some(<<original, resolution[1]>>)

\* Some(<<original file name, resolution>>) or None
extract_resolution_from_filename(fnm) ==
    LET dot_pos == rfind(fnm, ".")
    IN  IF dot_pos # 0
        THEN LET name_without_ext == SubSeq(fnm, 1, dot_pos - 1)
                 extension        == SubSeq(fnm, dot_pos, Len(fnm))
                 underscore_pos   == rfind(name_without_ext, "_")
             IN  IF underscore_pos = 0 THEN None
                 ELSE WithResolution(
                          SubSeq(name_without_ext, 1, underscore_pos - 1) \o extension,
                          parse_resolution_suffix(
                              SubSeq(name_without_ext, underscore_pos + 1, Len(name_without_ext))))
        ELSE LET underscore_pos == rfind(fnm, "_")
             IN  IF underscore_pos = 0 THEN None
                 ELSE WithResolution(
                          SubSeq(fnm, 1, underscore_pos - 1),
                          parse_resolution_suffix(SubSeq(fnm, underscore_pos + 1, Len(fnm))))

\* Some(<<original AssetPath, resolution>>) or None
\* the original path rebuilt from the parent directory and the extracted name
OriginalPath(path_buf, ex) ==
    IF ex = None THEN None
    ELSE Some(<<AssetPathFrom(join(parent(path_buf)[1], ex[1][1])), ex[1][2]>>)

parse_cache_path(path) ==
    IF file_name(path.path) = None THEN None
    ELSE OriginalPath(path.path, extract_resolution_from_filename(file_name(path.path)[1]))

(***************************************************************************)
(* PreviewCache (preview/cache.rs).  A cache value is a record             *)
(* [path_cache, id_to_paths]: path_cache is a function from cache keys     *)
(* (AssetPaths with the resolution suffix) to entries, id_to_paths a       *)
(* function from asset ids to the Vec of cache keys (a sequence).          *)
(***************************************************************************)

PreviewCacheEntry(image_handle, asset_id, resolution, timestamp) ==
    [image_handle |-> image_handle, asset_id |-> asset_id,
     resolution |-> resolution, timestamp |-> timestamp]

EmptyMap == [x \in {} |-> x]

PreviewCacheNew == [path_cache |-> EmptyMap, id_to_paths |-> EmptyMap]

MapRemove(m, k) == [x \in DOMAIN m \ {k} |-> m[x]]

\* Vec::retain
Retain(s, keep(_)) == SelectSeq(s, keep)

\* cache keys whose parsed original path has the same path() as `path`
ParsesTo(parsed, path) == parsed # None /\ parsed[1][1].path = path.path

KeysForPath(c, path) == {k \in DOMAIN c.path_cache : ParsesTo(parse_cache_path(k), path)}

\* the resolution parsed from a cache key
KeyResolution(k) == parse_cache_path(k)[1][2]

\* the entry of the key of greatest resolution among `cand`
HighestOf(c, cand) ==
    IF cand = {} THEN None
    ELSE Some(c.path_cache[CHOOSE k \in cand :
             \A j \in cand : KeyResolution(j) <= KeyResolution(k)])

find_highest_resolution_for_path(c, path) ==
    \* best_resolution starts at 0 and is replaced only on a strictly greater
    \* resolution, so keys of resolution 0 are never selected
    HighestOf(c, {k \in KeysForPath(c, path) : KeyResolution(k) > 0})

\* HashMap::get on the path index
PathCacheGet(c, cache_path) ==
    IF cache_path \in DOMAIN c.path_cache THEN Some(c.path_cache[cache_path]) ELSE None

get_by_path(c, path, resolution) ==
    IF resolution # None
    THEN PathCacheGet(c, cache_path_for_resolution(path, resolution[1]))
    ELSE find_highest_resolution_for_path(c, path)

\* the entries of get_all_by_path as a set (the code returns them sorted by resolution)
get_all_by_path(c, path) == {c.path_cache[k] : k \in KeysForPath(c, path)}

\* first entry of `paths` (in list order) with a resolution strictly above `best`
RECURSIVE BestInList(_, _, _, _)
BestInList(c, paths, best_resolution, best_entry) ==
    IF paths = <<>> THEN best_entry
    ELSE LET p == Head(paths)
         IN  IF p \in DOMAIN c.path_cache /\ c.path_cache[p].resolution > best_resolution
             THEN BestInList(c, Tail(paths), c.path_cache[p].resolution, Some(c.path_cache[p]))
             ELSE BestInList(c, Tail(paths), best_resolution, best_entry)

\* index in `paths` of the first live entry of resolution res, 0 when none
FirstWithRes(c, paths, res) ==
    LET hits == {i \in 1..Len(paths) :
                    paths[i] \in DOMAIN c.path_cache /\ c.path_cache[paths[i]].resolution = res}
    IN  IF hits = {} THEN 0 ELSE CHOOSE i \in hits : \A j \in hits : i <= j

get_by_id(c, asset_id, resolution) ==
    IF asset_id \notin DOMAIN c.id_to_paths THEN None
    ELSE LET paths == c.id_to_paths[asset_id]
         IN  IF resolution # None
             THEN LET i == FirstWithRes(c, paths, resolution[1])
                  IN  IF i = 0 THEN None ELSE Some(c.path_cache[paths[i]])
             ELSE BestInList(c, paths, 0, None)

\* a plausible slip: the reverse index is appended to without the contains() check
insert_no_dedup(c, path, asset_id, resolution, image_handle, timestamp) ==
    LET cache_path == cache_path_for_resolution(path, resolution)
        entry == PreviewCacheEntry(image_handle, asset_id, resolution, timestamp)
        paths == IF asset_id \in DOMAIN c.id_to_paths THEN c.id_to_paths[asset_id] ELSE <<>>
    IN  [path_cache  |-> (cache_path :> entry) @@ c.path_cache,
         id_to_paths |-> (asset_id :> Append(paths, cache_path)) @@ c.id_to_paths]

insert(c, path, asset_id, resolution, image_handle, timestamp) ==
    LET cache_path == cache_path_for_resolution(path, resolution)
        entry == PreviewCacheEntry(image_handle, asset_id, resolution, timestamp)
        paths == IF asset_id \in DOMAIN c.id_to_paths THEN c.id_to_paths[asset_id] ELSE <<>>
        paths2 == IF cache_path \in Range(paths) THEN paths ELSE Append(paths, cache_path)
    IN  [path_cache  |-> (cache_path :> entry) @@ c.path_cache,
         id_to_paths |-> (asset_id :> paths2) @@ c.id_to_paths]

remove_path_from_id_mapping(c, asset_id, cache_path) ==
    IF asset_id \notin DOMAIN c.id_to_paths THEN c
    ELSE LET keep(p) == p # cache_path
             paths == Retain(c.id_to_paths[asset_id], keep)
         IN  IF paths = <<>>
             THEN [c EXCEPT !.id_to_paths = MapRemove(c.id_to_paths, asset_id)]
             ELSE [c EXCEPT !.id_to_paths = (asset_id :> paths) @@ c.id_to_paths]

cleanup_id_mapping(c, asset_id, original_path) ==
    IF asset_id \notin DOMAIN c.id_to_paths THEN c
    ELSE LET keep(cache_path) ==
                 LET pr == parse_cache_path(cache_path)
                 IN  IF pr # None THEN pr[1][1].path # original_path.path ELSE TRUE
             paths == Retain(c.id_to_paths[asset_id], keep)
         IN  IF paths = <<>>
             THEN [c EXCEPT !.id_to_paths = MapRemove(c.id_to_paths, asset_id)]
             ELSE [c EXCEPT !.id_to_paths = (asset_id :> paths) @@ c.id_to_paths]

RECURSIVE CleanupAll(_, _, _)
CleanupAll(c, asset_ids, original_path) ==
    IF asset_ids = {} THEN c
    ELSE LET a == CHOOSE a \in asset_ids : TRUE
         IN  CleanupAll(cleanup_id_mapping(c, a, original_path), asset_ids \ {a}, original_path)

\* the cache after remove_all_resolutions_for_path; its return value is the
\* first entry removed in HashMap iteration order (see RemovedByPath)
remove_all_resolutions_for_path(c, path) ==
    LET cache_paths == KeysForPath(c, path)
        asset_ids_to_check == {c.path_cache[k].asset_id : k \in cache_paths}
        c1 == [c EXCEPT !.path_cache = [k \in DOMAIN c.path_cache \ cache_paths |-> c.path_cache[k]]]
    IN  CleanupAll(c1, asset_ids_to_check, path)

remove_by_path(c, path, resolution) ==
    IF resolution # None
    THEN LET cache_path == cache_path_for_resolution(path, resolution[1])
         IN  IF cache_path \in DOMAIN c.path_cache
             THEN remove_path_from_id_mapping(
                      [c EXCEPT !.path_cache = MapRemove(c.path_cache, cache_path)],
                      c.path_cache[cache_path].asset_id, cache_path)
             ELSE c
    ELSE remove_all_resolutions_for_path(c, path)

\* the possible return values of remove_by_path
RemovedByPath(c, path, resolution) ==
    IF resolution # None
    THEN {get_by_path(c, path, resolution)}
    ELSE IF KeysForPath(c, path) = {} THEN {None}
         ELSE {Some(c.path_cache[k]) : k \in KeysForPath(c, path)}

remove_by_id(c, asset_id, resolution) ==
    IF asset_id \notin DOMAIN c.id_to_paths THEN c
    ELSE LET paths == c.id_to_paths[asset_id]
         IN  IF resolution # None
             THEN LET i == FirstWithRes(c, paths, resolution[1])
                  IN  IF i = 0 THEN c
                      ELSE remove_path_from_id_mapping(
                               [c EXCEPT !.path_cache = MapRemove(c.path_cache, paths[i])],
                               asset_id, paths[i])
             ELSE [path_cache  |-> [k \in DOMAIN c.path_cache \ Range(paths) |-> c.path_cache[k]],
                   id_to_paths |-> MapRemove(c.id_to_paths, asset_id)]

\* the return value of remove_by_id
RemovedById(c, asset_id, resolution) ==
    IF asset_id \notin DOMAIN c.id_to_paths THEN None
    ELSE LET paths == c.id_to_paths[asset_id]
             live  == {i \in 1..Len(paths) : paths[i] \in DOMAIN c.path_cache}
         IN  IF resolution # None THEN get_by_id(c, asset_id, resolution)
             ELSE IF live = {} THEN None
             ELSE Some(c.path_cache[paths[CHOOSE i \in live : \A j \in live : i <= j]])

clear(c) == PreviewCacheNew

len(c) == Cardinality(DOMAIN c.path_cache)

(***************************************************************************)
(* LoadPriority and LoadTask (asset/priority.rs, asset/task.rs)            *)
(***************************************************************************)

Priorities == {"CurrentAccess", "HotReload", "Preload"}

\* LoadPriority::value
value(priority) ==
    CASE priority = "CurrentAccess" -> 3
      [] priority = "HotReload" -> 2
      [] priority = "Preload" -> 1

\* Ord for integers
IntCmp(a, b) == IF a < b THEN "Less" ELSE IF a = b THEN "Equal" ELSE "Greater"

\* impl Ord for LoadPriority
PriorityCmp(a, b) == IntCmp(value(a), value(b))

LoadTask(path, priority, task_id) == [path |-> path, priority |-> priority, task_id |-> task_id]

\* a plausible slip: equal priorities compared by task id without the reversal
LoadTaskCmpNoReverse(self, other) ==
    IF PriorityCmp(self.priority, other.priority) = "Equal"
    THEN IntCmp(self.task_id, other.task_id)
    ELSE PriorityCmp(self.priority, other.priority)

\* impl Ord for LoadTask: priority first, equal priorities by reversed task id
LoadTaskCmp(self, other) ==
    IF PriorityCmp(self.priority, other.priority) = "Equal"
    THEN IntCmp(other.task_id, self.task_id)
    ELSE PriorityCmp(self.priority, other.priority)

(***************************************************************************)
(* AssetLoader (asset/loader.rs).  The BinaryHeap is modelled by the set   *)
(* of its elements; peek/pop return its greatest element under Ord.        *)
(***************************************************************************)

\* AssetLoader::new(max_concurrent); the default is 4
max_concurrent == 2

AssetLoaderNew ==
    [queue |-> {}, next_task_id |-> 0, active_tasks |-> 0, task_paths |-> EmptyMap,
     handle_to_entity |-> EmptyMap, task_to_handle |-> EmptyMap]

\* BinaryHeap::peek: the greatest element
peek_next(l) ==
    IF l.queue = {} THEN None
    ELSE Some(CHOOSE t \in l.queue : \A u \in l.queue : LoadTaskCmp(t, u) # "Less")

\* a plausible slip: the path of the new task is not recorded
submit_no_path(l, path, priority) ==
    LET task_id == l.next_task_id
    IN  [l EXCEPT !.next_task_id = task_id + 1,
                  !.queue = @ \cup {LoadTask(path, priority, task_id)}]

\* the loader after submit; the returned task id is l.next_task_id
submit(l, path, priority) ==
    LET task_id == l.next_task_id
    IN  [l EXCEPT !.next_task_id = task_id + 1,
                  !.queue = @ \cup {LoadTask(path, priority, task_id)},
                  !.task_paths = (task_id :> path) @@ @]

get_task_path(l, task_id) ==
    IF task_id \in DOMAIN l.task_paths THEN Some(l.task_paths[task_id]) ELSE None

queue_len(l) == Cardinality(l.queue)

\* the loader after pop_next; the returned task is peek_next(l)
pop_next(l) ==
    IF l.queue = {} THEN l ELSE [l EXCEPT !.queue = @ \ {peek_next(l)[1]}]

\* a plausible slip: <= lets one task too many start
can_start_task_off_by_one(l) == l.active_tasks <= max_concurrent

can_start_task(l) == l.active_tasks < max_concurrent

start_task(l) == [l EXCEPT !.active_tasks = @ + 1]

\* a plausible slip: the decrement without the guard
finish_task_unguarded(l) == [l EXCEPT !.active_tasks = @ - 1]

finish_task(l) == IF l.active_tasks > 0 THEN [l EXCEPT !.active_tasks = @ - 1] ELSE l

register_task(l, task_id, entity, handle_id) ==
    [l EXCEPT !.handle_to_entity = (handle_id :> entity) @@ @,
              !.task_to_handle = (task_id :> handle_id) @@ @]

get_entity_by_handle(l, handle_id) ==
    IF handle_id \in DOMAIN l.handle_to_entity THEN Some(l.handle_to_entity[handle_id]) ELSE None

get_handle_id_by_task(l, task_id) ==
    IF task_id \in DOMAIN l.task_to_handle THEN Some(l.task_to_handle[task_id]) ELSE None

\* a plausible slip: the task's path entry is left behind
cleanup_task_keeps_path(l, task_id, handle_id) ==
    [l EXCEPT !.handle_to_entity = MapRemove(@, handle_id),
              !.task_to_handle = MapRemove(@, task_id)]

cleanup_task(l, task_id, handle_id) ==
    [l EXCEPT !.task_paths = MapRemove(@, task_id),
              !.handle_to_entity = MapRemove(@, handle_id),
              !.task_to_handle = MapRemove(@, task_id)]

(***************************************************************************)
(* State                                                                   *)
(***************************************************************************)

VARIABLES
    cache,      \* the PreviewCache resource: [path_cache, id_to_paths]
    cached,     \* history: <<path, resolution>> |-> arguments of the insert that
                \* created the entry now stored under that pair's cache key
    cop,        \* history: the last PreviewCache operation, its arguments and result
    nops,       \* number of PreviewCache operations performed
    loader,     \* the AssetLoader resource
    submitted,  \* history: the tasks submitted directly, in submission order
    popped,     \* history: the tasks returned by direct pop_next calls, in order
    qlast,      \* history: the last direct pop_next: its result and the queue before it
    tasks,      \* the world's ActiveLoadTask components: tracking entity |-> component
    ui,         \* the world's UI entities: entity |-> [preview_asset, pending, image_node]
    cmds,       \* the deferred Commands not yet applied to the world
    load_state, \* the asset server: asset id |-> load state
    asset_events,            \* Events<AssetEvent<Image>> not yet read by handle_asset_events
    load_failed_events_bevy, \* Events<AssetLoadFailedEvent<Image>> not yet read
    load_completed_events,   \* AssetLoadCompleted events written in this tick
    load_failed_events,      \* AssetLoadFailed events written in this tick
    hot_reload_events,       \* AssetHotReloaded events written in this tick
    ran,        \* the systems of the Update schedule that already ran in this tick
    admitted,   \* history: task ids a load was issued for
    emitted,    \* history: task id |-> number of AssetLoadCompleted/AssetLoadFailed events
    finished,   \* history: task id |-> number of finish_task calls made on its behalf
    doomed,     \* history: tasks whose load failed or whose asset was removed in flight
    call,       \* history: the last direct call of application code, the loader before it
    tracker,    \* the SaveTaskTracker resource
    save_tasks, \* the world's ActiveSaveTask components: entity |-> component
    save_completed_events,  \* history: every SaveCompleted event written, in order
    task_manager,           \* the PreviewTaskManager resource
    requests,               \* the world's PendingPreviewRequest components
    preview_ready_events,   \* history: every PreviewReady event written, in order
    preview_failed_events,  \* history: every PreviewFailed event written, in order
    image_events,           \* Events<AssetEvent<Image>> not yet read by
                            \* handle_image_preview_events
    requested,  \* history: UI entity |-> the task ids preview_handler submitted for it
    schedule    \* the systems the application added to its Update schedule

cacheVars == <<cache, cached, cop, nops>>

queueVars == <<submitted, popped, qlast, call>>

saveVars == <<tracker, save_tasks, save_completed_events>>

previewVars == <<task_manager, requests, preview_ready_events, preview_failed_events>>

worldVars == <<tasks, ui, cmds, load_state, asset_events, load_failed_events_bevy,
               load_completed_events, load_failed_events, hot_reload_events, ran,
               admitted, emitted, finished, doomed,
               image_events, requested, schedule>>

vars == <<cache, cached, cop, nops, loader, submitted, popped, qlast,
          tasks, ui, cmds, load_state, asset_events, load_failed_events_bevy,
          load_completed_events, load_failed_events, hot_reload_events, ran,
          admitted, emitted, finished, doomed, call, tracker, save_tasks,
          save_completed_events, task_manager, requests, preview_ready_events,
          preview_failed_events, image_events, requested, schedule>>

(***************************************************************************)
(* Inputs of the PreviewCache operations                                   *)
(***************************************************************************)

MaxCacheOps == 3

PathA == AssetPathFrom(<<<<"a", ".", "p", "n", "g">>>>)

\* the same file addressed with a label (a sub-asset)
PathAL == [source |-> DefaultSource, path |-> <<<<"a", ".", "p", "n", "g">>>>, label |-> "L"]

\* no extension, inside a directory
PathB == AssetPathFrom(<<<<"d">>, <<"b">>>>)

CachePaths == {PathA, PathAL, PathB}

Resolutions == {0, 1, 2}

AssetIds == {"id1", "id2"}

\* the handle passed by the k-th operation: the cache stores the handle and never
\* reads it, so a fresh one per insert tells every entry apart
ImageOf(n) == <<"img", n + 1>>

\* callers pass time.elapsed(): the timestamp of the k-th operation is k
Elapsed(n) == n + 1

OptResolutions == {None} \cup {Some(r) : r \in Resolutions}

NoOp == [op |-> "none", path |-> None, asset_id |-> None, resolution |-> None,
         image |-> None, timestamp |-> None, ret |-> None, len_before |-> 0,
         existed |-> FALSE, variants_before |-> 0, owners |-> {}]

\* the resolutions recorded as cached for `path`
Variants(ch, path) == {r \in Resolutions : <<path, r>> \in DOMAIN ch}

\* the identities recorded for the cached entries of `path`
Owners(ch, path) == {ch[<<path, r>>].asset_id : r \in Variants(ch, path)}

\* drop the history of pairs whose cache key is gone from the path index
Surviving(ch, c) ==
    [pr \in {q \in DOMAIN ch : cache_path_for_resolution(q[1], q[2]) \in DOMAIN c.path_cache}
        |-> ch[pr]]

CacheIdle ==
    /\ cache = PreviewCacheNew
    /\ cached = EmptyMap
    /\ cop = NoOp
    /\ nops = 0

QueueIdle ==
    /\ submitted = <<>>
    /\ popped = <<>>
    /\ qlast = [ret |-> None, before |-> {}, pops |-> 0, mixed |-> FALSE]
    /\ call = [op |-> "none", before |-> AssetLoaderNew]

\* the assets the loader specification loads: two image files
PathC == AssetPathFrom(<<<<"c", ".", "p", "n", "g">>>>)

LoaderPaths == {PathA, PathC}

\* the task ids the history variables cover
MaxTasks == 2

UIEnts == {<<"ui", 1>>, <<"ui", 2>>}

TaskIds == 0..(MaxTasks + Cardinality(UIEnts) - 1)

SaveIdle ==
    /\ tracker = [next_task_id |-> 0, pending_saves |-> EmptyMap]
    /\ save_tasks = EmptyMap
    /\ save_completed_events = <<>>

\* the systems AssetPreviewPlugin adds to Update that the model covers, and the
\* command sync point between handle_asset_events and the UI handlers
Systems == {"preview_handler", "process_load_queue", "handle_asset_events", "sync",
            "handle_preview_load_completed", "handle_preview_load_failed",
            "check_failed_loads", "handle_image_preview_events"}

PreviewIdle ==
    /\ task_manager = [next_task_id |-> 0, task_to_entity |-> EmptyMap]
    /\ requests = EmptyMap
    /\ preview_ready_events = <<>>
    /\ preview_failed_events = <<>>

WorldIdle ==
    /\ SaveIdle
    /\ PreviewIdle
    /\ image_events = <<>>
    /\ requested = [u \in UIEnts |-> <<>>]
    /\ tasks = EmptyMap
    /\ ui = EmptyMap
    /\ cmds = <<>>
    /\ load_state = [a \in LoaderPaths |-> "NotLoaded"]
    /\ asset_events = <<>>
    /\ load_failed_events_bevy = <<>>
    /\ load_completed_events = <<>>
    /\ load_failed_events = <<>>
    /\ hot_reload_events = <<>>
    /\ ran = {}
    /\ admitted = {}
    /\ emitted = [t \in TaskIds |-> 0]
    /\ finished = [t \in TaskIds |-> 0]
    /\ doomed = [fresh |-> {}, settled |-> {}]

InitCache ==
    /\ CacheIdle
    /\ loader = AssetLoaderNew
    /\ QueueIdle
    /\ WorldIdle
    /\ schedule = Systems \ {"handle_image_preview_events"}

CacheInsert ==
    /\ nops < MaxCacheOps
    /\ \E path \in CachePaths, asset_id \in AssetIds, resolution \in Resolutions :
          LET image == ImageOf(nops)
              timestamp == Elapsed(nops)
              key == cache_path_for_resolution(path, resolution)
              args == [image_handle |-> image, asset_id |-> asset_id, timestamp |-> timestamp]
              \* an insert under the same cache key replaces whatever pair owned it
              others == {q \in DOMAIN cached :
                            cache_path_for_resolution(q[1], q[2]) # key}
          IN  /\ cache' = insert(cache, path, asset_id, resolution, image, timestamp)
              /\ cached' = (<<path, resolution>> :> args) @@ [q \in others |-> cached[q]]
              /\ cop' = [op |-> "insert", path |-> Some(path), asset_id |-> Some(asset_id),
                         resolution |-> Some(resolution), image |-> Some(image),
                         timestamp |-> Some(timestamp), ret |-> None,
                         len_before |-> len(cache),
                         existed |-> (<<path, resolution>> \in DOMAIN cached),
                         variants_before |-> Cardinality(Variants(cached, path)),
                         owners |-> Owners(cached, path)]
    /\ nops' = nops + 1
    /\ UNCHANGED <<loader, queueVars, saveVars, previewVars, worldVars>>

CacheRemoveByPath ==
    /\ nops < MaxCacheOps
    /\ \E path \in CachePaths, resolution \in OptResolutions :
       \E ret \in RemovedByPath(cache, path, resolution) :
          /\ cache' = remove_by_path(cache, path, resolution)
          /\ cached' = Surviving(cached, cache')
          /\ cop' = [op |-> "remove_by_path", path |-> Some(path), asset_id |-> None,
                     resolution |-> resolution, image |-> None, timestamp |-> None,
                     ret |-> ret, len_before |-> len(cache),
                     existed |-> (resolution # None /\ <<path, resolution[1]>> \in DOMAIN cached),
                     variants_before |-> Cardinality(Variants(cached, path)),
                     owners |-> Owners(cached, path)]
    /\ nops' = nops + 1
    /\ UNCHANGED <<loader, queueVars, saveVars, previewVars, worldVars>>

CacheRemoveById ==
    /\ nops < MaxCacheOps
    /\ \E asset_id \in AssetIds, resolution \in OptResolutions :
          /\ cache' = remove_by_id(cache, asset_id, resolution)
          /\ cached' = Surviving(cached, cache')
          /\ cop' = [op |-> "remove_by_id", path |-> None, asset_id |-> Some(asset_id),
                     resolution |-> resolution, image |-> None, timestamp |-> None,
                     ret |-> RemovedById(cache, asset_id, resolution),
                     len_before |-> len(cache), existed |-> FALSE, variants_before |-> 0,
                     owners |-> {}]
    /\ nops' = nops + 1
    /\ UNCHANGED <<loader, queueVars, saveVars, previewVars, worldVars>>

CacheClear ==
    /\ nops < MaxCacheOps
    /\ cache' = clear(cache)
    /\ cached' = Surviving(cached, cache')
    /\ cop' = [NoOp EXCEPT !.op = "clear", !.len_before = len(cache)]
    /\ nops' = nops + 1
    /\ UNCHANGED <<loader, queueVars, saveVars, previewVars, worldVars>>

NextCache == CacheInsert \/ CacheRemoveByPath \/ CacheRemoveById \/ CacheClear

SpecCache == InitCache /\ [][NextCache]_vars

(***************************************************************************)
(* The loader's queue driven directly through submit / pop_next, as the    *)
(* unit tests of loader.rs and asset_loader_test.rs do                     *)
(***************************************************************************)

MaxSubmits == 5

QueuePaths == {PathA}

InitQueue ==
    /\ CacheIdle
    /\ loader = AssetLoaderNew
    /\ QueueIdle
    /\ WorldIdle
    /\ schedule = Systems \ {"handle_image_preview_events"}

QSubmit ==
    /\ loader.next_task_id < MaxSubmits
    /\ \E path \in QueuePaths, priority \in Priorities :
          /\ loader' = submit(loader, path, priority)
          /\ submitted' = Append(submitted, LoadTask(path, priority, loader.next_task_id))
    /\ qlast' = [qlast EXCEPT !.mixed = @ \/ qlast.pops > 0]
    /\ UNCHANGED <<popped, call, cacheVars, saveVars, previewVars, worldVars>>

QPopNext ==
    /\ qlast.pops <= MaxSubmits
    /\ loader' = pop_next(loader)
    /\ popped' = popped \o peek_next(loader)
    /\ qlast' = [qlast EXCEPT !.ret = peek_next(loader), !.before = loader.queue,
                              !.pops = @ + 1]
    /\ UNCHANGED <<submitted, call, cacheVars, saveVars, previewVars, worldVars>>

NextQueue == QSubmit \/ QPopNext

SpecQueue == InitQueue /\ [][NextQueue]_vars

\* t goes before u in priority-then-FIFO order
Before(t, u) ==
    \/ value(t.priority) > value(u.priority)
    \/ value(t.priority) = value(u.priority) /\ t.task_id < u.task_id

\* C2: pop_next returns the queued task of highest priority and, among those,
\* of smallest task id, or none if the queue is empty; when all submissions
\* precede the pops, popping until empty yields every submitted task exactly
\* once in priority-then-FIFO order.
C2_PopOrder ==
    /\ qlast.pops > 0 =>
          IF qlast.before = {} THEN qlast.ret = None
          ELSE /\ qlast.ret # None
               /\ qlast.ret[1] \in qlast.before
               /\ \A u \in qlast.before \ {qlast.ret[1]} : Before(qlast.ret[1], u)
    /\ (~qlast.mixed /\ qlast.pops > 0 /\ loader.queue = {}) =>
          /\ Len(popped) = Len(submitted)
          /\ Range(popped) = Range(submitted)
          /\ \A i, j \in 1..Len(popped) : i < j => Before(popped[i], popped[j])

\* C2 witness: the five submissions Preload, CurrentAccess, HotReload, Preload,
\* CurrentAccess (ids 0..4) have been popped until empty, as ids 1, 4, 2, 0, 3
C2_Witness ==
    /\ ~qlast.mixed /\ loader.queue = {}
    /\ [i \in 1..Len(submitted) |-> submitted[i].priority]
          = <<"Preload", "CurrentAccess", "HotReload", "Preload", "CurrentAccess">>
    /\ [i \in 1..Len(popped) |-> popped[i].task_id] = <<1, 4, 2, 0, 3>>

(***************************************************************************)
(* The asset server, the world and deferred commands, as the systems of    *)
(* loader.rs and ui/mod.rs use them.  An asset id is modelled by the asset *)
(* path it was loaded from: AssetServer::load is idempotent per path.       *)
(***************************************************************************)

\* the id of the handle AssetServer::load(path) returns
HandleId(path) == path

\* AssetServer::load: starts a load unless the asset is loading or loaded
server_load(ls, path) ==
    [ls EXCEPT ![path] = IF @ \in {"NotLoaded", "Failed"} THEN "Loading" ELSE @]

ActiveLoadTask(task_id, path, handle, priority) ==
    [task_id |-> task_id, path |-> path, handle |-> handle, priority |-> priority]

PendingPreviewLoad(task_id, asset_path) == [task_id |-> task_id, asset_path |-> asset_path]

\* the placeholder image handle (FILE_PLACEHOLDER)
FILE_PLACEHOLDER == "file_icon.png"

\* the entity spawned to track task `task_id`
TaskEntity(task_id) == <<"task", task_id>>

\* a deferred command; arg is Some(component) or None
Cmd(kind, entity, arg) == [cmd |-> kind, entity |-> entity, arg |-> arg]

\* one command applied to the world w = [tasks, ui, requests]
ApplyCommand(w, c) ==
    CASE c.cmd = "spawn" ->
             [w EXCEPT !.tasks = (c.entity :> c.arg[1]) @@ @]
      [] c.cmd = "despawn" ->
             [w EXCEPT !.tasks = MapRemove(@, c.entity)]
      [] c.cmd = "despawn_request" ->
             [w EXCEPT !.requests = MapRemove(@, c.entity)]
      [] c.cmd = "insert_image_node" ->
             IF c.entity \in DOMAIN w.ui
             THEN [w EXCEPT !.ui[c.entity].image_node = c.arg] ELSE w
      [] c.cmd = "insert_pending" ->
             IF c.entity \in DOMAIN w.ui
             THEN [w EXCEPT !.ui[c.entity].pending = c.arg] ELSE w
      [] c.cmd = "remove_preview_asset" ->
             IF c.entity \in DOMAIN w.ui
             THEN [w EXCEPT !.ui[c.entity].preview_asset = None] ELSE w
      [] c.cmd = "remove_pending" ->
             IF c.entity \in DOMAIN w.ui
             THEN [w EXCEPT !.ui[c.entity].pending = None] ELSE w
      [] c.cmd = "insert_scene" ->
             IF c.entity \in DOMAIN w.requests
             THEN [w EXCEPT !.requests[c.entity].scene = c.arg] ELSE w
      [] c.cmd = "insert_waiting" ->
             IF c.entity \in DOMAIN w.requests
             THEN [w EXCEPT !.requests[c.entity].waiting = TRUE] ELSE w
      [] c.cmd = "remove_waiting" ->
             IF c.entity \in DOMAIN w.requests
             THEN [w EXCEPT !.requests[c.entity].waiting = FALSE] ELSE w
      [] c.cmd = "insert_screenshot" ->
             IF c.entity \in DOMAIN w.requests
             THEN [w EXCEPT !.requests[c.entity].screenshots = @ + 1] ELSE w

\* the command queue applied in order
RECURSIVE ApplyCommands(_, _)
ApplyCommands(w, cs) ==
    IF cs = <<>> THEN w ELSE ApplyCommands(ApplyCommand(w, Head(cs)), Tail(cs))

\* all orders in which a query may iterate over the entities of S
Orders(S) ==
    {f \in [1..Cardinality(S) -> S] : \A i, j \in 1..Cardinality(S) : i # j => f[i] # f[j]}

\* number of entries of the event sequence evs that carry task id t
EventsOf(evs, t) == Cardinality({i \in 1..Len(evs) : evs[i].task_id = t})

(***************************************************************************)
(* process_load_queue (loader.rs)                                          *)
(***************************************************************************)

\* a plausible slip: `if` instead of `while` admits at most one task per pass
AdmitOnce(st) ==
    IF can_start_task(st.loader) /\ peek_next(st.loader) # None
    THEN LET task == peek_next(st.loader)[1]
             handle == HandleId(task.path)
             entity == TaskEntity(task.task_id)
             active_task == ActiveLoadTask(task.task_id, task.path, handle, task.priority)
         IN  [loader |-> register_task(start_task(pop_next(st.loader)), task.task_id,
                                       entity, handle),
              load_state |-> server_load(st.load_state, task.path),
              cmds |-> Append(st.cmds, Cmd("spawn", entity, Some(active_task))),
              admitted |-> st.admitted \cup {task.task_id}]
    ELSE st

\* the while loop; st = [loader, load_state, cmds, admitted]
RECURSIVE AdmitLoop(_)
AdmitLoop(st) ==
    IF can_start_task(st.loader) /\ peek_next(st.loader) # None
    THEN LET task == peek_next(st.loader)[1]
             l1 == pop_next(st.loader)
             \* spawn_load_task
             handle == HandleId(task.path)
             active_task == ActiveLoadTask(task.task_id, task.path, handle, task.priority)
             l2 == start_task(l1)
             \* commands.spawn(active_task).id(): a fresh entity
             entity == TaskEntity(task.task_id)
             l3 == register_task(l2, task.task_id, entity, handle)
         IN  AdmitLoop([loader |-> l3,
                        load_state |-> server_load(st.load_state, task.path),
                        cmds |-> Append(st.cmds, Cmd("spawn", entity, Some(active_task))),
                        admitted |-> st.admitted \cup {task.task_id}])
    ELSE st

(***************************************************************************)
(* handle_asset_events (loader.rs).  st = [loader, completed, failed, hot, *)
(* cmds, fin]: the loader, the events written, the commands queued and the *)
(* task ids finish_task was called for.  tq is the world's ActiveLoadTask  *)
(* query: the deferred spawns and despawns of this system are not in it.   *)
(***************************************************************************)

LoadFailedEvent(active_task, error) ==
    [task_id |-> active_task.task_id, path |-> active_task.path, error |-> error]

LoadCompletedEvent(active_task) ==
    [task_id |-> active_task.task_id, path |-> active_task.path,
     handle |-> active_task.handle, priority |-> active_task.priority]

HotReloadedEvent(active_task) ==
    [task_id |-> active_task.task_id, path |-> active_task.path, handle |-> active_task.handle]

\* finish_task + cleanup_task + despawn, as every completion branch does
Release(st, task_id, handle_id, entity) ==
    [st EXCEPT !.loader = cleanup_task(finish_task(@), task_id, handle_id),
               !.cmds = Append(@, Cmd("despawn", entity, None)),
               !.fin = Append(@, task_id)]

\* for event in load_failed_events_bevy.read()
RECURSIVE HandleLoadFailedEvents(_, _, _)
HandleLoadFailedEvents(st, tq, evs) ==
    IF evs = <<>> THEN st
    ELSE LET id == Head(evs)
             entity == get_entity_by_handle(st.loader, id)
         IN  IF entity # None /\ entity[1] \in DOMAIN tq
             THEN LET active_task == tq[entity[1]]
                      st1 == [st EXCEPT !.failed =
                                 Append(@, LoadFailedEvent(active_task, "AssetLoadFailed"))]
                  IN  HandleLoadFailedEvents(
                          Release(st1, active_task.task_id, id, entity[1]), tq, Tail(evs))
             ELSE HandleLoadFailedEvents(st, tq, Tail(evs))

\* for event in asset_events.read()
RECURSIVE HandleAssetEvents(_, _, _)
HandleAssetEvents(st, tq, evs) ==
    IF evs = <<>> THEN st
    ELSE LET event == Head(evs)
             id == event.id
             entity == get_entity_by_handle(st.loader, id)
         IN  IF entity # None /\ entity[1] \in DOMAIN tq
             THEN LET active_task == tq[entity[1]]
                  IN  CASE event.kind = "LoadedWithDependencies" ->
                               HandleAssetEvents(
                                   Release([st EXCEPT !.completed =
                                               Append(@, LoadCompletedEvent(active_task))],
                                           active_task.task_id, id, entity[1]),
                                   tq, Tail(evs))
                        [] event.kind = "Removed" ->
                               HandleAssetEvents(
                                   Release([st EXCEPT !.failed =
                                               Append(@, LoadFailedEvent(active_task, "AssetRemoved"))],
                                           active_task.task_id, id, entity[1]),
                                   tq, Tail(evs))
                        [] event.kind = "Modified" ->
                               HandleAssetEvents(
                                   [st EXCEPT !.hot = Append(@, HotReloadedEvent(active_task))],
                                   tq, Tail(evs))
             ELSE HandleAssetEvents(st, tq, Tail(evs))

\* the fallback loop over task_query.iter(), visiting the entities in `order`;
\* the despawns of failed_entities are queued after the loop
RECURSIVE FallbackLoop(_, _, _, _, _)
FallbackLoop(st, tq, ls, order, failed_entities) ==
    IF order = <<>>
    THEN [st EXCEPT !.cmds = @ \o [i \in 1..Len(failed_entities) |->
                                      Cmd("despawn", failed_entities[i], None)]]
    ELSE LET active_task == tq[Head(order)]
             entity == get_entity_by_handle(st.loader, active_task.handle)
         IN  IF ls[active_task.handle] = "Failed" /\ entity # None
             THEN FallbackLoop(
                      [st EXCEPT !.failed =
                                     Append(@, LoadFailedEvent(active_task, "AssetLoadFailed")),
                                 !.loader = cleanup_task(finish_task(@), active_task.task_id,
                                                         active_task.handle),
                                 !.fin = Append(@, active_task.task_id)],
                      tq, ls, Tail(order), Append(failed_entities, entity[1]))
             ELSE FallbackLoop(st, tq, ls, Tail(order), failed_entities)

\* the whole system for one iteration order of the fallback's query
handle_asset_events(l, tq, ls, failed_evs, asset_evs, order) ==
    LET st0 == [loader |-> l, completed |-> <<>>, failed |-> <<>>, hot |-> <<>>,
                cmds |-> <<>>, fin |-> <<>>]
        st1 == HandleLoadFailedEvents(st0, tq, failed_evs)
        st2 == HandleAssetEvents(st1, tq, asset_evs)
    IN  FallbackLoop(st2, tq, ls, order, <<>>)

(***************************************************************************)
(* ui/mod.rs and preview/image.rs                                          *)
(***************************************************************************)

UpperChars == <<"A", "B", "C", "D", "E", "F", "G", "H", "I", "J", "K", "L", "M", "N", "O", "P", "Q", "R", "S", "T", "U", "V", "W", "X", "Y", "Z">>

LowerChars == <<"a", "b", "c", "d", "e", "f", "g", "h", "i", "j", "k", "l", "m", "n", "o", "p", "q", "r", "s", "t", "u", "v", "w", "x", "y", "z">>

\* str::to_lowercase on ASCII text
to_lowercase(s) ==
    [i \in 1..Len(s) |->
        IF \E k \in 1..26 : UpperChars[k] = s[i]
        THEN LowerChars[CHOOSE k \in 1..26 : UpperChars[k] = s[i]]
        ELSE s[i]]

\* Path::extension(): the text after the last dot of the file name, unless
\* there is no dot or the only dot starts the name
extension(comps) ==
    LET fname == file_name(comps)
    IN  IF fname = None THEN None
        ELSE LET dot_pos == rfind(fname[1], ".")
             IN  IF dot_pos <= 1 THEN None
                 ELSE Some(SubSeq(fname[1], dot_pos + 1, Len(fname[1])))

ImageExtensions ==
    {<<"p", "n", "g">>,
     <<"j", "p", "g">>,
     <<"j", "p", "e", "g">>,
     <<"b", "m", "p">>,
     <<"g", "i", "f">>,
     <<"i", "c", "o">>,
     <<"p", "n", "m">>,
     <<"p", "a", "m">>,
     <<"p", "b", "m">>,
     <<"p", "g", "m">>,
     <<"p", "p", "m">>,
     <<"t", "g", "a">>,
     <<"w", "e", "b", "p">>,
     <<"t", "i", "f", "f">>,
     <<"t", "i", "f">>,
     <<"d", "d", "s">>,
     <<"e", "x", "r">>,
     <<"h", "d", "r">>,
     <<"k", "t", "x", "2">>,
     <<"b", "a", "s", "i", "s">>,
     <<"q", "o", "i">>}

is_image_file(comps) ==
    LET ext == extension(comps)
    IN  IF ext = None THEN FALSE ELSE to_lowercase(ext[1]) \in ImageExtensions

\* the handle asset_server.load(FILE_PLACEHOLDER) returns
PlaceholderHandle == [source |-> "embedded", path |-> <<FILE_PLACEHOLDER>>, label |-> NoLabel]

\* the configured resolutions (PreviewConfig::resolutions)
ConfigResolutions == <<64, 256>>

\* the image a path loads to: its width and height, and whether its texture
\* format converts to a DynamicImage (try_into_dynamic succeeds)
ImageSize(id) ==
    IF id = PathA THEN [width |-> 800, height |-> 200, dynamic |-> TRUE]
    ELSE [width |-> 64, height |-> 64, dynamic |-> TRUE]

RECURSIVE Pow2(_)
Pow2(n) == IF n = 0 THEN 1 ELSE 2 * Pow2(n - 1)

\* floor of the binary logarithm of n >= 1
RECURSIVE Log2(_)
Log2(n) == IF n < 2 THEN 0 ELSE 1 + Log2(n \div 2)

\* bits of an f32 significand
F32Bits == 24

\* `n as f32` for an integer n: n rounded to 24 significant bits, ties to even
F32(n) ==
    IF n < Pow2(F32Bits) THEN n
    ELSE LET ulp == Pow2(Log2(n) + 1 - F32Bits)
             low == (n \div ulp) * ulp
             rest == n - low
         IN  IF 2 * rest < ulp THEN low
             ELSE IF 2 * rest > ulp THEN low + ulp
             ELSE IF (low \div ulp) % 2 = 0 THEN low ELSE low + ulp

\* `(a / b) as u32` for f32 values a and b that are integers, b < 2^24 and
\* a / b < 2^23: the f32 quotient is the exact quotient rounded to 24
\* significant bits, the cast truncates it.  The rounded quotient reaches
\* n + 1 exactly when the exact one is within half an ulp of it.
F32DivAsU32(a, b) ==
    LET n == a \div b
        r == a % b
    IN  IF r = 0 \/ n = 0 THEN n
        ELSE IF b - r <= b \div Pow2(F32Bits - Log2(n)) THEN n + 1 ELSE n

\* `(x as f32 * y as f32 / z as f32) as u32`
ScaledDimension(x, y, z) == F32DivAsU32(F32(F32(x) * F32(y)), F32(z))

\* resize_image_for_preview: None when the image is small enough or does not
\* convert to a DynamicImage, else the size of the resized image
resize_image_for_preview(image, target_size) ==
    LET width == image.width
        height == image.height
        new_size == IF width > height
                    THEN <<target_size, ScaledDimension(height, target_size, width)>>
                    ELSE <<ScaledDimension(width, target_size, height), target_size>>
    IN  IF width <= target_size /\ height <= target_size THEN None
        ELSE IF ~image.dynamic THEN None
        ELSE Some(new_size)

\* the handle images.add returns for the preview of `path` at `resolution`
AddedImage(path, resolution) ==
    [source |-> "images.add", path |-> cache_path_for_resolution(path, resolution).path,
     label |-> NoLabel]

\* a plausible slip: a resolution that is already cached is generated again
GeneratePreviewAgain(c, original_handle, path, asset_id, resolution, timestamp) ==
    LET preview_handle ==
            IF resize_image_for_preview(ImageSize(asset_id), resolution) # None
            THEN AddedImage(path, resolution)
            ELSE original_handle
    IN  insert(c, path, asset_id, resolution, preview_handle, timestamp)

\* one iteration of generate_previews_for_resolutions' loop
GeneratePreview(c, original_handle, path, asset_id, resolution, timestamp) ==
    IF get_by_path(c, path, Some(resolution)) # None THEN c
    ELSE LET preview_handle ==
                 IF resize_image_for_preview(ImageSize(asset_id), resolution) # None
                 THEN AddedImage(path, resolution)
                 ELSE original_handle
         IN  insert(c, path, asset_id, resolution, preview_handle, timestamp)

RECURSIVE generate_previews_for_resolutions(_, _, _, _, _, _)
generate_previews_for_resolutions(c, original_handle, path, asset_id, resolutions, timestamp) ==
    IF resolutions = <<>> THEN c
    ELSE generate_previews_for_resolutions(
             GeneratePreview(c, original_handle, path, asset_id, Head(resolutions), timestamp),
             original_handle, path, asset_id, Tail(resolutions), timestamp)

\* the entities of a query over PendingPreviewLoad
PendingEntities(u) == {e \in DOMAIN u : u[e].pending # None}

\* a plausible slip: the load is submitted at the priority of a current access
PreviewStepUrgent(st, u, c, entity) ==
    LET path == u[entity].preview_asset[1]
        asset_path == AssetPathFrom(path)
        cache_entry == get_by_path(c, asset_path, None)
        task_id == st.loader.next_task_id
    IN  IF ~is_image_file(path)
        THEN \* not an image: the placeholder
             [st EXCEPT !.cmds = @ \o <<Cmd("insert_image_node", entity, Some(PlaceholderHandle)),
                                        Cmd("remove_preview_asset", entity, None)>>]
        ELSE IF cache_entry # None
        THEN \* cache hit
             [st EXCEPT !.cmds = @ \o
                 <<Cmd("insert_image_node", entity, Some(cache_entry[1].image_handle)),
                   Cmd("remove_preview_asset", entity, None)>>]
        ELSE \* cache miss: submit and mark as pending
             [loader |-> submit(st.loader, asset_path, "CurrentAccess"),
              cmds |-> st.cmds \o
                  <<Cmd("insert_pending", entity, Some(PendingPreviewLoad(task_id, asset_path))),
                    Cmd("insert_image_node", entity, Some(PlaceholderHandle))>>,
              submits |-> Append(st.submits, <<entity, task_id>>)]

\* one iteration of preview_handler's loop, for `entity`; st = [loader, cmds,
\* submits], submits being the history of <<entity, task id>> submitted
PreviewStep(st, u, c, entity) ==
    LET path == u[entity].preview_asset[1]
        asset_path == AssetPathFrom(path)
        cache_entry == get_by_path(c, asset_path, None)
        task_id == st.loader.next_task_id
    IN  IF ~is_image_file(path)
        THEN \* not an image: the placeholder
             [st EXCEPT !.cmds = @ \o <<Cmd("insert_image_node", entity, Some(PlaceholderHandle)),
                                        Cmd("remove_preview_asset", entity, None)>>]
        ELSE IF cache_entry # None
        THEN \* cache hit
             [st EXCEPT !.cmds = @ \o
                 <<Cmd("insert_image_node", entity, Some(cache_entry[1].image_handle)),
                   Cmd("remove_preview_asset", entity, None)>>]
        ELSE \* cache miss: submit with Preload priority and mark as pending
             [loader |-> submit(st.loader, asset_path, "Preload"),
              cmds |-> st.cmds \o
                  <<Cmd("insert_pending", entity, Some(PendingPreviewLoad(task_id, asset_path))),
                    Cmd("insert_image_node", entity, Some(PlaceholderHandle))>>,
              submits |-> Append(st.submits, <<entity, task_id>>)]

\* preview_handler's loop over `order`
RECURSIVE PreviewLoop(_, _, _, _)
PreviewLoop(st, u, c, order) ==
    IF order = <<>> THEN st
    ELSE PreviewLoop(PreviewStep(st, u, c, Head(order)), u, c, Tail(order))

\* handle_preview_load_completed's body for one event; st = [cache, ui, cmds].
\* The ImageNode is written in place, the removals are deferred.
\* the update made for `entity` once the previews are in the cache c1
ShowPreview(st, c1, entity, asset_path, handle) ==
    LET best == get_by_path(c1, asset_path, None)
        preview_image == IF best # None THEN best[1].image_handle ELSE handle
    IN  [cache |-> c1,
         ui |-> IF st.ui[entity].image_node # None
                THEN [st.ui EXCEPT ![entity].image_node = Some(preview_image)]
                ELSE st.ui,
         cmds |-> st.cmds \o <<Cmd("remove_preview_asset", entity, None),
                               Cmd("remove_pending", entity, None)>>]

CompletedStep(st, u, ls, event, now) ==
    LET hits == {e \in PendingEntities(u) : u[e].pending[1].task_id = event.task_id}
    IN  IF hits # {} /\ ls[event.handle] = "Loaded"
        THEN LET entity == CHOOSE e \in hits : TRUE
                 pending == u[entity].pending[1]
                 asset_id == event.handle
             IN  ShowPreview(st,
                             generate_previews_for_resolutions(
                                 st.cache, event.handle, pending.asset_path, asset_id,
                                 ConfigResolutions, now),
                             entity, pending.asset_path, event.handle)
        ELSE st

\* handle_preview_load_completed's loop over the events
RECURSIVE CompletedLoop(_, _, _, _, _)
CompletedLoop(st, u, ls, evs, now) ==
    IF evs = <<>> THEN st
    ELSE CompletedLoop(CompletedStep(st, u, ls, Head(evs), now), u, ls, Tail(evs), now)

\* handle_preview_load_failed's loop over the events: the commands it queues
RECURSIVE FailedLoop(_, _)
FailedLoop(u, evs) ==
    IF evs = <<>> THEN <<>>
    ELSE LET hits == {e \in PendingEntities(u) : u[e].pending[1].task_id = Head(evs).task_id}
         IN  IF hits # {}
             THEN <<Cmd("remove_pending", CHOOSE e \in hits : TRUE, None),
                    Cmd("remove_preview_asset", CHOOSE e \in hits : TRUE, None)>>
                      \o FailedLoop(u, Tail(evs))
             ELSE FailedLoop(u, Tail(evs))

\* check_failed_loads' loop over `order`; st = [loader, load_state, cmds, fin]
RECURSIVE CheckLoop(_, _, _, _)
CheckLoop(st, u, tq, order) ==
    IF order = <<>> THEN st
    ELSE LET entity == Head(order)
             pending == u[entity].pending[1]
             found == {te \in DOMAIN tq : tq[te].task_id = pending.task_id}
             handle == IF found # {} THEN tq[CHOOSE te \in found : TRUE].handle
                       ELSE HandleId(pending.asset_path)
             ls1 == IF found # {} THEN st.load_state
                    ELSE server_load(st.load_state, pending.asset_path)
             st1 == [st EXCEPT !.load_state = ls1]
         IN  IF ls1[handle] = "Failed"
             THEN LET st2 == [st1 EXCEPT !.cmds = @ \o
                                 <<Cmd("remove_pending", entity, None),
                                   Cmd("remove_preview_asset", entity, None)>>]
                  IN  IF found # {}
                      THEN LET task_entity == CHOOSE te \in found : TRUE
                               active_task == tq[task_entity]
                           IN  CheckLoop(Release(st2, active_task.task_id, active_task.handle,
                                                 task_entity),
                                         u, tq, Tail(order))
                      ELSE CheckLoop(st2, u, tq, Tail(order))
             ELSE CheckLoop(st1, u, tq, Tail(order))

(***************************************************************************)
(* Preview requests (preview/task.rs, preview/image.rs)                    *)
(***************************************************************************)

\* SaveTaskTracker::create_task_id and PreviewTaskManager::create_task_id: the
\* resource after the call; the returned id is m.next_task_id
\* a plausible slip: the counter is read but not advanced
create_task_id_stuck(m) == m

create_task_id(m) == [m EXCEPT !.next_task_id = @ + 1]

PreviewReady(task_id, path, image_handle) ==
    [task_id |-> task_id, path |-> path, image_handle |-> image_handle]

PreviewFailed(task_id, path, error) == [task_id |-> task_id, path |-> path, error |-> error]

PendingPreviewRequest(task_id, path) ==
    [task_id |-> task_id, path |-> path, request_type |-> "Image2D", mode |-> "Image",
     added |-> TRUE, scene |-> None, waiting |-> FALSE, scenes |-> 0, screenshots |-> 0]

\* request entities that carry a PreviewScene3D
HasScene(request) == "scene" \in DOMAIN request /\ request.scene # None

\* the entity spawned for the pending request of task `task_id`
RequestEntity(task_id) == <<"request", task_id>>

\* PreviewTaskManager::register_task
manager_register_task(m, task_id, entity) ==
    [m EXCEPT !.task_to_entity = (task_id :> entity) @@ @]

\* PreviewTaskManager::remove_task
remove_task(m, task_id) == [m EXCEPT !.task_to_entity = MapRemove(@, task_id)]

\* a plausible slip: the request is left pending although the image is in memory
RequestLoadDeferred(st, path, resolution, now) ==
    LET task_id == st.task_manager.next_task_id
        m1 == create_task_id(st.task_manager)
    IN  [st EXCEPT !.task_manager =
                       manager_register_task(m1, task_id, RequestEntity(task_id)),
                   !.load_state = server_load(st.load_state, path),
                   !.requests = (RequestEntity(task_id) :>
                                     PendingPreviewRequest(task_id, path)) @@ @]

\* request_image_preview after a cache miss (image.rs:68-108): load the image,
\* generate the previews at once if it is in Assets<Image>, i.e. its load state
\* is Loaded, else spawn a pending request
RequestLoad(st, path, resolution, now) ==
    LET task_id == st.task_manager.next_task_id
        m1 == create_task_id(st.task_manager)
        handle == HandleId(path)
        ls1 == server_load(st.load_state, path)
        c1 == generate_previews_for_resolutions(st.cache, handle, path, handle,
                                                ConfigResolutions, now)
        best == get_by_path(c1, path, resolution)
        preview_handle == IF best # None THEN best[1].image_handle ELSE handle
    IN  IF ls1[handle] = "Loaded"
        THEN [st EXCEPT !.task_manager = m1, !.load_state = ls1, !.cache = c1,
                        !.ready = Append(@, PreviewReady(task_id, path, preview_handle))]
        ELSE [st EXCEPT !.task_manager =
                            manager_register_task(m1, task_id, RequestEntity(task_id)),
                        !.load_state = ls1,
                        !.requests = (RequestEntity(task_id) :>
                                          PendingPreviewRequest(task_id, path)) @@ @]

\* a plausible slip: the cache is not consulted
request_without_cache(st, path, resolution, now) == RequestLoad(st, path, resolution, now)

\* request_image_preview; st = [task_manager, cache, load_state, requests, ready],
\* the returned task id is st.task_manager.next_task_id
request_image_preview(st, path, resolution, now) ==
    LET cache_entry == get_by_path(st.cache, path, resolution)
        task_id == st.task_manager.next_task_id
    IN  IF cache_entry # None
        THEN [st EXCEPT !.task_manager = create_task_id(@),
                        !.ready = Append(@, PreviewReady(task_id, path,
                                                         cache_entry[1].image_handle))]
        ELSE RequestLoad(st, path, resolution, now)

\* handle_image_preview_events: the loop over the pending requests for one
\* event, visiting them in `order`; st = [cache, load_state, task_manager,
\* ready, failed, cmds].  q is the world's query: the despawns are deferred.
RECURSIVE ImageEventRequests(_, _, _, _, _)
ImageEventRequests(st, q, event, order, now) ==
    IF order = <<>> THEN st
    ELSE LET entity == Head(order)
             request == q[entity]
             handle == HandleId(request.path)
             st1 == [st EXCEPT !.load_state = server_load(@, request.path)]
             c1 == generate_previews_for_resolutions(st1.cache, handle, request.path, handle,
                                                     ConfigResolutions, now)
             best == get_by_path(c1, request.path, None)
             preview_image == IF best # None THEN best[1].image_handle ELSE handle
             Released(s) == [s EXCEPT !.task_manager = remove_task(@, request.task_id),
                                      !.cmds = Append(@, Cmd("despawn_request", entity, None))]
         IN  IF handle # event.id
             THEN ImageEventRequests(st1, q, event, Tail(order), now)
             ELSE IF event.kind = "Removed"
             THEN ImageEventRequests(
                      Released([st1 EXCEPT !.failed =
                          Append(@, PreviewFailed(request.task_id, request.path,
                                                  "Image asset was removed"))]),
                      q, event, Tail(order), now)
             ELSE IF st1.load_state[handle] = "Loaded"
             THEN ImageEventRequests(
                      Released([st1 EXCEPT !.cache = c1,
                                           !.ready = Append(@, PreviewReady(request.task_id,
                                                             request.path, preview_image))]),
                      q, event, Tail(order), now)
             ELSE ImageEventRequests(st1, q, event, Tail(order), now)

\* handle_image_preview_events: the loop over the events
RECURSIVE handle_image_preview_events(_, _, _, _, _)
handle_image_preview_events(st, q, evs, order, now) ==
    IF evs = <<>> THEN st
    ELSE LET event == Head(evs)
         IN  CASE event.kind = "LoadedWithDependencies" ->
                      handle_image_preview_events(
                          ImageEventRequests(st, q, event, order, now), q, Tail(evs), order, now)
               [] event.kind = "Removed" ->
                      handle_image_preview_events(
                          ImageEventRequests([st EXCEPT !.cache = remove_by_id(@, event.id, None)],
                                             q, event, order, now),
                          q, Tail(evs), order, now)
               [] OTHER -> handle_image_preview_events(st, q, Tail(evs), order, now)

(***************************************************************************)
(* The loader specification: direct submissions, UI entities asking for a  *)
(* preview, the asset server resolving loads between ticks, and the        *)
(* systems of the Update schedule.  lib.rs orders only the three UI        *)
(* handlers after handle_asset_events (with a command sync point between); *)
(* preview_handler and process_load_queue run anywhere in the tick.        *)
(***************************************************************************)

\* bound on the unread asset events of one kind
MaxEvents == 2

\* the priority direct submissions use (preview_handler submits with Preload)
LoaderPriorities == {"CurrentAccess"}

\* the paths UI entities ask a preview for: an image file and a non-image file
UIPaths == {PathA.path, PathB.path}

InitLoader ==
    /\ CacheIdle
    /\ loader = AssetLoaderNew
    /\ QueueIdle
    /\ WorldIdle
    /\ schedule = Systems \ {"handle_image_preview_events"}

\* tasks whose tracking entity exists, holds asset `id` and was not finished
InFlight(id) ==
    {tasks[e].task_id : e \in {x \in DOMAIN tasks :
                                  tasks[x].handle = id /\ finished[tasks[x].task_id] = 0}}

BetweenTicks == ran = {}

Ran(system) == ran' = ran \cup {system}

AddCounts(f, ids) == [t \in DOMAIN f |-> f[t] + Count(ids, t)]

\* application code calls loader.submit between two ticks
Submit ==
    /\ BetweenTicks
    /\ loader.next_task_id < MaxTasks
    /\ \E path \in LoaderPaths, priority \in LoaderPriorities :
          loader' = submit(loader, path, priority)
    /\ UNCHANGED <<cacheVars, queueVars, saveVars, previewVars, worldVars>>

\* application code spawns the UI entity u carrying PreviewAsset(path)
SpawnPreviewAssetOf(u) ==
    /\ BetweenTicks
    /\ u \notin DOMAIN ui
    /\ \E path \in UIPaths :
          ui' = (u :> [preview_asset |-> Some(path), pending |-> None, image_node |-> None]) @@ ui
    /\ UNCHANGED <<cacheVars, queueVars, saveVars, previewVars, loader, tasks, cmds, load_state, asset_events,
                   load_failed_events_bevy, load_completed_events, load_failed_events,
                   hot_reload_events, ran, admitted, emitted, finished, doomed, image_events, requested, schedule>>

\* an asset event reaches the reader of handle_image_preview_events when the
\* application runs that system
ToPreviewReader(evs, event) ==
    IF "handle_image_preview_events" \in schedule THEN Append(evs, event) ELSE evs

\* the loader specification has one UI entity
SpawnPreviewAsset == SpawnPreviewAssetOf(<<"ui", 1>>)

\* the asset server finishes the load of `id`: LoadedWithDependencies
EnvLoadedOf(id) ==
    /\ BetweenTicks
    /\ Len(asset_events) < MaxEvents
    /\ load_state[id] = "Loading"
    /\ load_state' = [load_state EXCEPT ![id] = "Loaded"]
    /\ asset_events' = Append(asset_events, [kind |-> "LoadedWithDependencies", id |-> id])
    /\ image_events' = ToPreviewReader(image_events, [kind |-> "LoadedWithDependencies", id |-> id])
    /\ UNCHANGED <<cacheVars, queueVars, saveVars, previewVars, loader, tasks, ui, cmds, load_failed_events_bevy,
                   load_completed_events, load_failed_events, hot_reload_events, ran,
                   admitted, emitted, finished, doomed, requested, schedule>>

\* the load of `id` fails; the AssetLoadFailedEvent may or may not reach the reader
EnvFailedOf(id) ==
    /\ BetweenTicks
    /\ Len(load_failed_events_bevy) < MaxEvents
    /\ load_state[id] = "Loading"
    /\ load_state' = [load_state EXCEPT ![id] = "Failed"]
    /\ \E with_event \in BOOLEAN :
          load_failed_events_bevy' =
              IF with_event THEN Append(load_failed_events_bevy, id)
              ELSE load_failed_events_bevy
    /\ doomed' = [doomed EXCEPT !.fresh = @ \cup InFlight(id)]
    /\ UNCHANGED <<cacheVars, queueVars, saveVars, previewVars, loader, tasks, ui, cmds, asset_events,
                   load_completed_events, load_failed_events, hot_reload_events, ran,
                   admitted, emitted, finished, image_events, requested, schedule>>

EnvLoaded == \E id \in LoaderPaths : EnvLoadedOf(id)

EnvFailed == \E id \in LoaderPaths : EnvFailedOf(id)

\* a loaded image is removed from Assets<Image>: its load state stays Loaded,
\* written "Removed" here, and the image is no longer available
EnvRemoved ==
    /\ BetweenTicks
    /\ Len(asset_events) < MaxEvents
    /\ \E id \in LoaderPaths :
          /\ load_state[id] = "Loaded"
          /\ load_state' = [load_state EXCEPT ![id] = "Removed"]
          /\ asset_events' = Append(asset_events, [kind |-> "Removed", id |-> id])
          /\ image_events' = ToPreviewReader(image_events, [kind |-> "Removed", id |-> id])
          /\ doomed' = [doomed EXCEPT !.fresh = @ \cup InFlight(id)]
    /\ UNCHANGED <<cacheVars, queueVars, saveVars, previewVars, loader, tasks, ui, cmds, load_failed_events_bevy,
                   load_completed_events, load_failed_events, hot_reload_events, ran,
                   admitted, emitted, finished, requested, schedule>>

\* a loaded image is modified (hot reload)
EnvModified ==
    /\ BetweenTicks
    /\ Len(asset_events) < MaxEvents
    /\ \E id \in LoaderPaths :
          /\ load_state[id] = "Loaded"
          /\ asset_events' = Append(asset_events, [kind |-> "Modified", id |-> id])
          /\ image_events' = ToPreviewReader(image_events, [kind |-> "Modified", id |-> id])
    /\ UNCHANGED <<cacheVars, queueVars, saveVars, previewVars, loader, tasks, ui, cmds, load_state,
                   load_failed_events_bevy, load_completed_events, load_failed_events,
                   hot_reload_events, ran, admitted, emitted, finished, doomed, requested, schedule>>

\* system preview_handler
PreviewHandler ==
    /\ "preview_handler" \notin ran
    /\ \E order \in Orders({e \in DOMAIN ui : /\ ui[e].preview_asset # None
                                              /\ ui[e].pending = None
                                              /\ ui[e].image_node = None}) :
          LET st == PreviewLoop([loader |-> loader, cmds |-> cmds, submits |-> <<>>],
                                ui, cache, order)
          IN  /\ loader' = st.loader
              /\ cmds' = st.cmds
              /\ requested' = [u \in DOMAIN requested |->
                                  requested[u] \o
                                  SelectSeq([i \in 1..Len(st.submits) |->
                                                IF st.submits[i][1] = u THEN st.submits[i][2]
                                                ELSE -1],
                                            LAMBDA id : id >= 0)]
    /\ Ran("preview_handler")
    /\ UNCHANGED <<cacheVars, queueVars, saveVars, previewVars, tasks, ui, load_state, asset_events,
                   load_failed_events_bevy, load_completed_events, load_failed_events,
                   hot_reload_events, admitted, emitted, finished, doomed, image_events, schedule>>

\* system process_load_queue
ProcessLoadQueue ==
    /\ "process_load_queue" \notin ran
    /\ LET st == AdmitLoop([loader |-> loader, load_state |-> load_state, cmds |-> cmds,
                            admitted |-> admitted])
       IN  /\ loader' = st.loader
           /\ load_state' = st.load_state
           /\ cmds' = st.cmds
           /\ admitted' = st.admitted
    /\ Ran("process_load_queue")
    /\ UNCHANGED <<cacheVars, queueVars, saveVars, previewVars, tasks, ui, asset_events, load_failed_events_bevy,
                   load_completed_events, load_failed_events, hot_reload_events,
                   emitted, finished, doomed, image_events, requested, schedule>>

\* the entities the fallback loop acts on: it skips every task whose load state
\* is not Failed, so only the order among these matters
FailedTasks(tq, ls) == {e \in DOMAIN tq : ls[tq[e].handle] = "Failed"}

\* system handle_asset_events
HandleAssetEventsSystem ==
    /\ "handle_asset_events" \notin ran
    /\ \E order \in Orders(FailedTasks(tasks, load_state)) :
          LET st == handle_asset_events(loader, tasks, load_state, load_failed_events_bevy,
                                        asset_events, order)
          IN  /\ loader' = st.loader
              /\ cmds' = cmds \o st.cmds
              /\ load_completed_events' = load_completed_events \o st.completed
              /\ load_failed_events' = load_failed_events \o st.failed
              /\ hot_reload_events' = hot_reload_events \o st.hot
              /\ emitted' = [t \in TaskIds |->
                                emitted[t] + EventsOf(st.completed, t) + EventsOf(st.failed, t)]
              /\ finished' = AddCounts(finished, st.fin)
    /\ asset_events' = <<>>
    /\ load_failed_events_bevy' = <<>>
    /\ Ran("handle_asset_events")
    /\ UNCHANGED <<cacheVars, queueVars, saveVars, previewVars, tasks, ui, load_state, admitted, doomed, image_events, requested, schedule>>

\* the command sync point the schedule inserts after handle_asset_events
Sync ==
    /\ "sync" \notin ran
    /\ "handle_asset_events" \in ran
    /\ LET w == ApplyCommands([tasks |-> tasks, ui |-> ui, requests |-> requests], cmds)
       IN  /\ tasks' = w.tasks
           /\ ui' = w.ui
           /\ requests' = w.requests
    /\ cmds' = <<>>
    /\ Ran("sync")
    /\ UNCHANGED <<cacheVars, queueVars, saveVars, task_manager, preview_ready_events,
                   preview_failed_events, loader, load_state, asset_events,
                   load_failed_events_bevy, load_completed_events, load_failed_events,
                   hot_reload_events, admitted, emitted, finished, doomed, image_events, requested, schedule>>

\* system handle_preview_load_completed
HandlePreviewLoadCompleted ==
    /\ "handle_preview_load_completed" \notin ran
    /\ "sync" \in ran
    /\ \E st \in {CompletedLoop([cache |-> cache, ui |-> ui, cmds |-> cmds], ui, load_state,
                                 load_completed_events, Elapsed(nops))} :
          /\ cache' = st.cache
          /\ ui' = st.ui
          /\ cmds' = st.cmds
    /\ Ran("handle_preview_load_completed")
    /\ UNCHANGED <<cached, cop, nops, queueVars, saveVars, previewVars, loader, tasks, load_state, asset_events,
                   load_failed_events_bevy, load_completed_events, load_failed_events,
                   hot_reload_events, admitted, emitted, finished, doomed, image_events, requested, schedule>>

\* system handle_preview_load_failed
HandlePreviewLoadFailed ==
    /\ "handle_preview_load_failed" \notin ran
    /\ "handle_preview_load_completed" \in ran
    /\ cmds' = cmds \o FailedLoop(ui, load_failed_events)
    /\ Ran("handle_preview_load_failed")
    /\ UNCHANGED <<cacheVars, queueVars, saveVars, previewVars, loader, tasks, ui, load_state, asset_events,
                   load_failed_events_bevy, load_completed_events, load_failed_events,
                   hot_reload_events, admitted, emitted, finished, doomed, image_events, requested, schedule>>

\* system check_failed_loads
CheckFailedLoads ==
    /\ "check_failed_loads" \notin ran
    /\ "handle_preview_load_failed" \in ran
    /\ \E order \in Orders(PendingEntities(ui)) :
          LET st == CheckLoop([loader |-> loader, load_state |-> load_state, cmds |-> cmds,
                               fin |-> <<>>], ui, tasks, order)
          IN  /\ loader' = st.loader
              /\ load_state' = st.load_state
              /\ cmds' = st.cmds
              /\ finished' = AddCounts(finished, st.fin)
    /\ Ran("check_failed_loads")
    /\ UNCHANGED <<cacheVars, queueVars, saveVars, previewVars, tasks, ui, asset_events, load_failed_events_bevy,
                   load_completed_events, load_failed_events, hot_reload_events,
                   admitted, emitted, doomed, image_events, requested, schedule>>

\* system handle_image_preview_events
HandleImagePreviewEvents ==
    /\ "handle_image_preview_events" \in schedule \ ran
    /\ \E order \in Orders({e \in DOMAIN requests : ~HasScene(requests[e])}) :
       \E st \in {handle_image_preview_events(
                      [cache |-> cache, load_state |-> load_state,
                       task_manager |-> task_manager, ready |-> <<>>, failed |-> <<>>,
                       cmds |-> cmds],
                      requests, image_events, order, Elapsed(nops))} :
          /\ cache' = st.cache
          /\ load_state' = st.load_state
          /\ task_manager' = st.task_manager
          /\ preview_ready_events' = preview_ready_events \o st.ready
          /\ preview_failed_events' = preview_failed_events \o st.failed
          /\ cmds' = st.cmds
    /\ image_events' = <<>>
    /\ Ran("handle_image_preview_events")
    /\ UNCHANGED <<cached, cop, nops, queueVars, saveVars, requests, loader, tasks, ui,
                   asset_events, load_failed_events_bevy, load_completed_events,
                   load_failed_events, hot_reload_events, admitted, emitted, finished,
                   doomed, requested, schedule>>

\* the end of the schedule: the remaining commands are applied and the
\* events written in this tick have been read by every reader
EndTick ==
    /\ ran = schedule
    /\ LET w == ApplyCommands([tasks |-> tasks, ui |-> ui, requests |-> requests], cmds)
       IN  /\ tasks' = w.tasks
           /\ ui' = w.ui
           /\ requests' = w.requests
    /\ cmds' = <<>>
    /\ load_completed_events' = <<>>
    /\ load_failed_events' = <<>>
    /\ hot_reload_events' = <<>>
    /\ ran' = {}
    /\ doomed' = [fresh |-> {}, settled |-> doomed.settled \cup doomed.fresh]
    /\ UNCHANGED <<cacheVars, queueVars, saveVars, task_manager, preview_ready_events,
                   preview_failed_events, loader, load_state, asset_events,
                   load_failed_events_bevy, admitted, emitted, finished, image_events, requested, schedule>>

NextLoader ==
    \/ Submit
    \/ SpawnPreviewAsset
    \/ EnvLoaded
    \/ EnvFailed
    \/ EnvRemoved
    \/ EnvModified
    \/ PreviewHandler
    \/ ProcessLoadQueue
    \/ HandleAssetEventsSystem
    \/ Sync
    \/ HandlePreviewLoadCompleted
    \/ HandlePreviewLoadFailed
    \/ CheckFailedLoads
    \/ EndTick

SpecLoader == InitLoader /\ [][NextLoader]_vars

\* a step of the schedule
TickStep ==
    \/ PreviewHandler
    \/ ProcessLoadQueue
    \/ HandleAssetEventsSystem
    \/ Sync
    \/ HandlePreviewLoadCompleted
    \/ HandlePreviewLoadFailed
    \/ CheckFailedLoads
    \/ EndTick

\* the loader driven by direct submissions only: no UI entity is spawned
NextSubmissions ==
    \/ Submit
    \/ EnvLoaded
    \/ EnvFailed
    \/ EnvRemoved
    \/ EnvModified
    \/ TickStep

\* a finite sequence of submissions; ticks keep running, and every load
\* issued to the asset server eventually resolves as loaded or failed
FairSpecLoader ==
    /\ InitLoader
    /\ [][NextSubmissions]_vars
    /\ WF_vars(TickStep)
    /\ \A id \in LoaderPaths : SF_vars(EnvLoadedOf(id) \/ EnvFailedOf(id))

(***************************************************************************)
(* The preview specification: every system of the plugin runs; UI entities *)
(* ask for previews and application code calls request_image_preview       *)
(* between ticks.  Loads are submitted by preview_handler only.            *)
(***************************************************************************)

\* bound on the number of request_image_preview calls
MaxRequests == 2

\* the resolutions asked for: the best one cached, and one never generated
RequestResolutions == {None, Some(1)}

InitPreview ==
    /\ CacheIdle
    /\ loader = AssetLoaderNew
    /\ QueueIdle
    /\ WorldIdle
    /\ schedule = Systems

\* application code calls request_image_preview for `path`; its spawn command
\* is applied before the next tick starts
RequestImagePreviewOf(path) ==
    /\ BetweenTicks
    /\ task_manager.next_task_id < MaxRequests
    /\ \E resolution \in RequestResolutions :
       \E st \in {request_image_preview(
                      [task_manager |-> task_manager, cache |-> cache,
                       load_state |-> load_state, requests |-> requests, ready |-> <<>>],
                      path, resolution, Elapsed(nops))} :
          /\ task_manager' = st.task_manager
          /\ cache' = st.cache
          /\ load_state' = st.load_state
          /\ requests' = st.requests
          /\ preview_ready_events' = preview_ready_events \o st.ready
          /\ call' = [op |-> "request_image_preview", resolution |-> resolution,
                       hit |-> get_by_path(cache, path, resolution) # None,
                       loaded |-> load_state[HandleId(path)] = "Loaded"]
    /\ UNCHANGED <<cached, cop, nops, submitted, popped, qlast, saveVars,
                   preview_failed_events, loader,
                   tasks, ui, cmds, asset_events, load_failed_events_bevy,
                   load_completed_events, load_failed_events, hot_reload_events, ran,
                   admitted, emitted, finished, doomed, image_events, requested, schedule>>

RequestImagePreview == RequestImagePreviewOf(PathA)

NextPreview ==
    \/ SpawnPreviewAsset
    \/ RequestImagePreview
    \/ EnvLoaded
    \/ EnvFailed
    \/ EnvRemoved
    \/ EnvModified
    \/ TickStep
    \/ HandleImagePreviewEvents

SpecPreview == InitPreview /\ [][NextPreview]_vars

\* C1: in every reachable state of the loader specification, whatever the
\* interleaving of submissions, admission passes and completion routing,
\* active_tasks is at most max_concurrent
C1_ActiveTasksBounded == loader.active_tasks <= max_concurrent

\* every slot is taken by an admitted task while another task waits in the queue
C1_Witness ==
    /\ loader.active_tasks = max_concurrent
    /\ queue_len(loader) > 0
    /\ Cardinality(DOMAIN tasks) = max_concurrent

\* the tracking entity of task t neither exists nor is waiting to be spawned
TrackingEntityGone(t) ==
    /\ TaskEntity(t) \notin DOMAIN tasks
    /\ \A i \in 1..Len(cmds) : ~(cmds[i].cmd = "spawn" /\ cmds[i].entity = TaskEntity(t))

\* C3: every admitted task gets at most one AssetLoadCompleted/AssetLoadFailed
\* event and at most one decrement of active_tasks, the two always together,
\* and once its tracking entity is gone it has got exactly one event and
\* exactly one decrement
C3_ExactlyOneSignal ==
    \A t \in admitted :
        /\ emitted[t] <= 1
        /\ finished[t] <= 1
        /\ emitted[t] = finished[t]
        /\ TrackingEntityGone(t) => emitted[t] = 1 /\ finished[t] = 1

\* C4: once a whole tick has run after the load of an in-flight task failed
\* or its asset was removed, the task has no task_paths entry, no
\* task_to_handle entry, no handle maps to its tracking entity, the entity
\* no longer exists and one decrement of active_tasks was made for it
C4_FailedTaskCleaned ==
    \A t \in doomed.settled :
        /\ get_task_path(loader, t) = None
        /\ get_handle_id_by_task(loader, t) = None
        /\ \A h \in DOMAIN loader.handle_to_entity :
               loader.handle_to_entity[h] # TaskEntity(t)
        /\ TaskEntity(t) \notin DOMAIN tasks
        /\ finished[t] = 1

\* nothing queued, no slot taken, no tracking entity, no task_paths entry
Drained ==
    /\ queue_len(loader) = 0
    /\ loader.active_tasks = 0
    /\ DOMAIN tasks = {}
    /\ DOMAIN loader.task_paths = {}

\* C5: when ticks keep running and every issued load resolves, the loader
\* eventually drains for good: the queue is empty, active_tasks is 0, no
\* tracking entity exists and task_paths is empty
C5_EventuallyDrained == <>[]Drained

(***************************************************************************)
(* Properties of the PreviewCache                                          *)
(***************************************************************************)

\* the entry the history records for <<path, r>>
RecordedEntry(path, r) ==
    PreviewCacheEntry(cached[<<path, r>>].image_handle, cached[<<path, r>>].asset_id,
                      r, cached[<<path, r>>].timestamp)

\* C6: after any sequence of insert / remove_by_path / remove_by_id / clear the
\* two indexes are strict mirrors: every key of the path index is listed under
\* the identity stored in its entry, every key listed under an identity exists
\* in the path index with that identity, and no identity maps to an empty list.
C6_IndexesAreMirrors ==
    /\ \A k \in DOMAIN cache.path_cache :
          /\ cache.path_cache[k].asset_id \in DOMAIN cache.id_to_paths
          /\ k \in Range(cache.id_to_paths[cache.path_cache[k].asset_id])
    /\ \A a \in DOMAIN cache.id_to_paths :
          /\ cache.id_to_paths[a] # <<>>
          /\ \A k \in Range(cache.id_to_paths[a]) :
                k \in DOMAIN cache.path_cache /\ cache.path_cache[k].asset_id = a

\* C7: get_by_path(path, Some(res)) returns exactly the image, identity,
\* resolution and timestamp of the insert that cached (path, res), for as long
\* as that key is neither overwritten nor removed, and returns none for every
\* resolution at which nothing is currently cached for that path.
C7_GetByPathExact ==
    \A path \in CachePaths, r \in Resolutions :
        IF <<path, r>> \in DOMAIN cached
        THEN get_by_path(cache, path, Some(r)) = Some(RecordedEntry(path, r))
        ELSE get_by_path(cache, path, Some(r)) = None

\* C8: get_by_path(path, None) returns the entry of the largest resolution
\* cached for that path, and none only when the path has no entry at all,
\* for every resolution value.
C8_GetByPathHighest ==
    \A path \in CachePaths :
        LET vs == Variants(cached, path)
        IN  IF vs = {} THEN get_by_path(cache, path, None) = None
            ELSE get_by_path(cache, path, None) =
                     Some(RecordedEntry(path, CHOOSE r \in vs : \A q \in vs : q <= r))

C10_RemoveAllResolutions ==
    (cop.op = "remove_by_path" /\ cop.resolution = None) =>
        LET path == cop.path[1]
        IN  /\ \A r \in Resolutions : get_by_path(cache, path, Some(r)) = None
            /\ get_by_path(cache, path, None) = None
            /\ get_all_by_path(cache, path) = {}
            /\ len(cache) = cop.len_before - cop.variants_before
            /\ \A a \in cop.owners :
                  /\ get_by_id(cache, a, None) = None
                  /\ \A r \in Resolutions : get_by_id(cache, a, Some(r)) = None
            /\ \A a \in DOMAIN cache.id_to_paths :
                  \A r \in Resolutions :
                      cache_path_for_resolution(path, r) \notin Range(cache.id_to_paths[a])

\* C11: remove_by_id(id, None) removes exactly the entries whose identity is id
\* and no entry of another identity; afterwards get_by_id(id, r) is none for
\* every r and for None.  remove_by_id(id, Some(r)) removes exactly one entry,
\* of identity id and resolution r, when id has one, and none otherwise, and
\* prunes id from the reverse index when that was its last entry.
C11_RemoveByIdExact ==
    [][(cop'.op = "remove_by_id" /\ nops' = nops + 1) =>
        LET id      == cop'.asset_id[1]
            before  == DOMAIN cache.path_cache
            after   == DOMAIN cache'.path_cache
            mine    == {k \in before : cache.path_cache[k].asset_id = id}
            removed == before \ after
        IN  /\ after \subseteq before
            /\ \A k \in after : cache'.path_cache[k] = cache.path_cache[k]
            /\ IF cop'.resolution = None
               THEN /\ removed = mine
                    /\ get_by_id(cache', id, None) = None
                    /\ \A r \in Resolutions : get_by_id(cache', id, Some(r)) = None
               ELSE LET r    == cop'.resolution[1]
                        at_r == {k \in mine : cache.path_cache[k].resolution = r}
                    IN  /\ removed \subseteq at_r
                        /\ Cardinality(removed) = IF at_r = {} THEN 0 ELSE 1
                        /\ (mine \ removed = {}) => id \notin DOMAIN cache'.id_to_paths
    ]_vars

\* C17: admission is work-conserving.  A process_load_queue pass admits exactly
\* min(queue_len, max_concurrent - active_tasks) tasks, the greatest of the
\* queue in priority order; each gets one load request and one tracking
\* record (a spawned ActiveLoadTask and its registry entry), and afterwards
\* the queue is empty or active_tasks = max_concurrent.
C17_WorkConserving ==
    [][("process_load_queue" \notin ran /\ "process_load_queue" \in ran') =>
        LET free     == max_concurrent - loader.active_tasks
            n        == IF queue_len(loader) < free THEN queue_len(loader) ELSE free
            taken    == loader.queue \ loader'.queue
            spawned  == {i \in (Len(cmds) + 1)..Len(cmds') : cmds'[i].cmd = "spawn"}
        IN  /\ loader'.queue \subseteq loader.queue
            /\ Cardinality(taken) = n
            /\ loader'.active_tasks = loader.active_tasks + n
            /\ loader'.queue = {} \/ loader'.active_tasks = max_concurrent
            /\ \A t \in taken : \A u \in loader'.queue : LoadTaskCmp(t, u) = "Greater"
            /\ admitted' = admitted \cup {t.task_id : t \in taken}
            /\ \A t \in taken : load_state'[t.path] \notin {"NotLoaded", "Failed"}
            /\ \A a \in DOMAIN load_state :
                  (\A t \in taken : t.path # a) => load_state'[a] = load_state[a]
            /\ Len(cmds') = Len(cmds) + n
            /\ \A t \in taken :
                  /\ Cardinality({i \in spawned : cmds'[i].arg[1].task_id = t.task_id}) = 1
                  /\ get_handle_id_by_task(loader', t.task_id) = Some(HandleId(t.path))
            /\ loader'.task_paths = loader.task_paths
    ]_vars

\* a pass has just filled every slot and left one task waiting in the queue
C17_Witness ==
    /\ "process_load_queue" \in ran
    /\ loader.active_tasks = max_concurrent
    /\ queue_len(loader) = 1
    /\ Cardinality({i \in 1..Len(cmds) : cmds[i].cmd = "spawn"}) = max_concurrent

QStartTask ==
    /\ loader.active_tasks <= max_concurrent
    /\ loader' = start_task(loader)
    /\ call' = [op |-> "start_task", before |-> loader]
    /\ UNCHANGED <<submitted, popped, qlast, cacheVars, saveVars, previewVars, worldVars>>

QFinishTask ==
    /\ loader' = finish_task(loader)
    /\ call' = [op |-> "finish_task", before |-> loader]
    /\ UNCHANGED <<submitted, popped, qlast, cacheVars, saveVars, previewVars, worldVars>>

NextSlots ==
    \/ (loader.next_task_id < MaxTasks /\ QSubmit)
    \/ QStartTask
    \/ QFinishTask

SpecSlots == InitQueue /\ [][NextSlots]_vars

\* C20: finish_task called with active_tasks = 0 leaves it 0 and changes
\* nothing else; called with active_tasks > 0 it decreases active_tasks by
\* exactly 1 and changes nothing else.
C20_FinishSaturates ==
    [][(call'.op = "finish_task" /\ submitted' = submitted) =>
        /\ call'.before = loader
        /\ loader'.active_tasks = IF loader.active_tasks = 0 THEN 0
                                  ELSE loader.active_tasks - 1
        /\ \A f \in DOMAIN loader \ {"active_tasks"} : loader'[f] = loader[f]
    ]_vars

\* finish_task has just been called with no active task and a task in the queue
C20_Witness ==
    /\ call.op = "finish_task"
    /\ call.before.active_tasks = 0
    /\ call.before.queue # {}

(***************************************************************************)
(* Saving (asset/saver.rs).  save_image returns a background task; the     *)
(* task is modelled by its position, the writer calls it made so far and   *)
(* its result once it finished.                                            *)
(***************************************************************************)

register_pending(t, task_id, path) == [t EXCEPT !.pending_saves = (task_id :> path) @@ @]

\* a plausible slip: the pending entry is left behind
mark_completed_forgotten(t, task_id) == t

mark_completed(t, task_id) == [t EXCEPT !.pending_saves = MapRemove(@, task_id)]

pending_count(t) == Cardinality(DOMAIN t.pending_saves)

ActiveSaveTask(task_id, path, target_path, task) ==
    [task_id |-> task_id, path |-> path, target_path |-> target_path, task |-> task]

SaveCompleted(task_id, path, result) == [task_id |-> task_id, path |-> path, result |-> result]

\* the path handed to the writer: the extension is set to webp unless it is webp
WebpPath(comps) ==
    LET fname == file_name(comps)
        webp  == <<"w", "e", "b", "p">>
    IN  IF fname = None \/ extension(comps) = Some(webp) THEN comps
        ELSE LET dot_pos == rfind(fname[1], ".")
                 stem == IF dot_pos <= 1 THEN fname[1] ELSE SubSeq(fname[1], 1, dot_pos - 1)
             IN  join(parent(comps)[1], stem \o <<".">> \o webp)

\* a plausible slip: a handle without image data is not told apart
save_image_unchecked(image, target_path, images, dynamic) ==
    LET Task(pc) == [pc |-> pc, image |-> image, path |-> WebpPath(target_path.path),
                     calls |-> <<>>, encoded |-> FALSE, result |-> None]
    IN  IF image \in DOMAIN images /\ images[image] \notin dynamic
        THEN Task("ImageConversionFailed")
        ELSE Task("create_directory")

\* the task save_image returns; images is Assets<Image>: handle |-> texture
\* format, and `dynamic` are the formats try_into_dynamic converts.  The task
\* remembers the handle it was started with.
save_image(image, target_path, images, dynamic) ==
    LET Task(pc) == [pc |-> pc, image |-> image, path |-> WebpPath(target_path.path),
                     calls |-> <<>>, encoded |-> FALSE, result |-> None]
    IN  IF image \notin DOMAIN images THEN Task("ImageNotFound")
        ELSE IF images[image] \notin dynamic THEN Task("ImageConversionFailed")
        ELSE Task("create_directory")

\* the next stage of the background task; `ok` is the outcome of the writer
\* call or of the encoder
SaveTaskRun(task, ok) ==
    LET Call(op, path) == [op |-> op, path |-> path, ok |-> ok]
    IN  CASE task.pc \in {"ImageNotFound", "ImageConversionFailed"} ->
                 [task EXCEPT !.pc = "done", !.result = Some(task.pc)]
          [] task.pc = "create_directory" ->
                 IF parent(task.path) = None THEN [task EXCEPT !.pc = "encode"]
                 ELSE LET t1 == [task EXCEPT !.calls =
                                    Append(@, Call("create_directory", parent(task.path)[1]))]
                      IN  IF ok THEN [t1 EXCEPT !.pc = "encode"]
                          ELSE [t1 EXCEPT !.pc = "done",
                                          !.result = Some("DirectoryCreationFailed")]
          [] task.pc = "encode" ->
                 IF ok THEN [task EXCEPT !.pc = "write_bytes", !.encoded = TRUE]
                 ELSE [task EXCEPT !.pc = "done", !.result = Some("ImageEncodeFailed")]
          [] task.pc = "write_bytes" ->
                 LET t1 == [task EXCEPT !.calls = Append(@, Call("write_bytes", task.path))]
                 IN  [t1 EXCEPT !.pc = "done",
                                !.result = Some(IF ok THEN "Ok" ELSE "FileWriteFailed")]

\* monitor_save_completion: the loop over the ActiveSaveTask entities in `order`;
\* st = [tracker, events, despawned]
RECURSIVE MonitorLoop(_, _, _)
MonitorLoop(st, q, order) ==
    IF order = <<>> THEN st
    ELSE LET entity == Head(order)
             active_task == q[entity]
         IN  IF active_task.task.result # None
             THEN MonitorLoop(
                      [tracker |-> mark_completed(st.tracker, active_task.task_id),
                       events |-> Append(st.events,
                                         SaveCompleted(active_task.task_id, active_task.path,
                                                       active_task.task.result[1])),
                       despawned |-> st.despawned \cup {entity}],
                      q, Tail(order))
             ELSE MonitorLoop(st, q, Tail(order))

\* bound on the number of saves started
MaxSaves == 2

\* Assets<Image> of the save specification: a colour image and a depth texture,
\* whose format try_into_dynamic does not convert; "missing" is a handle without data
SaveImages == ("colour" :> "Rgba8UnormSrgb") @@ ("depth" :> "Depth32Float")

\* application code (tests/asset_test.rs): save_image, create_task_id,
\* register_pending, spawn ActiveSaveTask
StartSaveOf(image, target_path) ==
    /\ tracker.next_task_id < MaxSaves
    /\ LET task == save_image(image, target_path, SaveImages, {"Rgba8UnormSrgb"})
           task_id == tracker.next_task_id
       IN  /\ tracker' = register_pending(create_task_id(tracker), task_id, PathC)
           /\ save_tasks' = (<<"save", task_id>> :>
                                 ActiveSaveTask(task_id, PathC, target_path, task))
                            @@ save_tasks
    /\ UNCHANGED <<save_completed_events, cacheVars, queueVars, loader, previewVars, worldVars>>

StartSave ==
    \E image \in DOMAIN SaveImages \cup {"missing"}, target_path \in {PathA, PathB} :
       StartSaveOf(image, target_path)

\* the IoTaskPool runs one stage of a background task
SaveTaskStep ==
    /\ \E entity \in DOMAIN save_tasks, ok \in BOOLEAN :
          /\ save_tasks[entity].task.result = None
          /\ save_tasks' = [save_tasks EXCEPT ![entity].task = SaveTaskRun(@, ok)]
    /\ UNCHANGED <<tracker, save_completed_events, cacheVars, queueVars, loader, previewVars, worldVars>>

\* system monitor_save_completion, with its despawn commands applied
MonitorSaveCompletion ==
    /\ \E order \in Orders({e \in DOMAIN save_tasks : save_tasks[e].task.result # None}) :
          LET st == MonitorLoop([tracker |-> tracker, events |-> <<>>, despawned |-> {}],
                                save_tasks, order)
          IN  /\ tracker' = st.tracker
              /\ save_completed_events' = save_completed_events \o st.events
              /\ save_tasks' = [e \in DOMAIN save_tasks \ st.despawned |-> save_tasks[e]]
    /\ UNCHANGED <<cacheVars, queueVars, loader, previewVars, worldVars>>

NextSave ==
    \/ StartSave
    \/ SaveTaskStep
    \/ MonitorSaveCompletion

SpecSave == InitQueue /\ [][NextSave]_vars

\* the schedule keeps running and every background task keeps making progress
FairSpecSave ==
    /\ InitQueue
    /\ [][NextSave]_vars
    /\ WF_vars(MonitorSaveCompletion)
    /\ WF_vars(SaveTaskStep)

\* the positions of the SaveCompleted events written for save task id
SaveEventsOf(evs, id) == {i \in 1..Len(evs) : evs[i].task_id = id}

\* C15: once the background task of an ActiveSaveTask has finished,
\* monitor_save_completion emits exactly one SaveCompleted carrying its task
\* id, path and result, removes the id from the tracker's pending set and
\* releases the tracking entity, for Ok and for every error alike; a task
\* still running is left alone; and when no save task is left pending_count
\* is 0.
C15_SaveCompletedOnce ==
    /\ [][(\/ save_completed_events' # save_completed_events
           \/ DOMAIN save_tasks' # DOMAIN save_tasks /\ DOMAIN save_tasks' \subseteq DOMAIN save_tasks
           \/ DOMAIN tracker'.pending_saves # DOMAIN tracker.pending_saves
              /\ tracker'.next_task_id = tracker.next_task_id) =>
            \A e \in DOMAIN save_tasks :
               LET t   == save_tasks[e]
                   new == {i \in SaveEventsOf(save_completed_events', t.task_id) :
                              i > Len(save_completed_events)}
               IN  IF t.task.result # None
                   THEN /\ Cardinality(new) = 1
                        /\ \A i \in new : save_completed_events'[i] =
                                SaveCompleted(t.task_id, t.path, t.task.result[1])
                        /\ t.task_id \notin DOMAIN tracker'.pending_saves
                        /\ e \notin DOMAIN save_tasks'
                   ELSE /\ new = {}
                        /\ e \in DOMAIN save_tasks' /\ save_tasks'[e] = t
                        /\ t.task_id \in DOMAIN tracker'.pending_saves
       ]_vars
    /\ [](\A id \in 0..(MaxSaves - 1) :
             Cardinality(SaveEventsOf(save_completed_events, id)) <= 1)
    /\ [](save_tasks = EmptyMap => pending_count(tracker) = 0)
    /\ \A id \in 0..(MaxSaves - 1) :
          (\E e \in DOMAIN save_tasks :
              save_tasks[e].task_id = id /\ save_tasks[e].task.result # None)
          ~> (/\ Cardinality(SaveEventsOf(save_completed_events, id)) = 1
              /\ id \notin DOMAIN tracker.pending_saves
              /\ \A e \in DOMAIN save_tasks : save_tasks[e].task_id # id)

\* a save that succeeded and a save that failed have both been reported and released
C15_Witness ==
    /\ save_tasks = EmptyMap
    /\ pending_count(tracker) = 0
    /\ \E i, j \in 1..Len(save_completed_events) :
          /\ save_completed_events[i].result = "Ok"
          /\ save_completed_events[j].result \notin {"Ok", "ImageNotFound"}

\* C16: save_image passes its stages in the order fetch pixels, convert,
\* encode, ensure the directory, write the bytes: create_directory is called
\* only after the encoding succeeded (an encoding failure ends the task as
\* ImageEncodeFailed with no writer call made), write_bytes only after
\* create_directory succeeded, and a stage's failure ends the task with that
\* stage's own error.
C16_StageOrder ==
    \A e \in DOMAIN save_tasks :
       LET t == save_tasks[e].task
           Called(op) == {i \in 1..Len(t.calls) : t.calls[i].op = op}
       IN  /\ Called("create_directory") # {} => t.encoded
           /\ t.result = Some("ImageEncodeFailed") => t.calls = <<>>
           /\ \A i \in Called("write_bytes") :
                 \E j \in Called("create_directory") : j < i /\ t.calls[j].ok
           /\ t.result = Some("DirectoryCreationFailed") =>
                 /\ Called("write_bytes") = {}
                 /\ \E j \in Called("create_directory") : ~t.calls[j].ok
           /\ t.result = Some("FileWriteFailed") =>
                 \E i \in Called("write_bytes") : ~t.calls[i].ok
           /\ t.result \in {Some("ImageNotFound"), Some("ImageConversionFailed")} =>
                 t.calls = <<>>

\* the PreviewAsset entities preview_handler's query returns
Unserved(u) ==
    {e \in DOMAIN u : u[e].preview_asset # None /\ u[e].pending = None /\ u[e].image_node = None}

\* the cached entry preview_handler finds for the PreviewAsset of entity e
CachedFor(c, u, e) == get_by_path(c, AssetPathFrom(u[e].preview_asset[1]), None)

\* the commands of kind `kind` queued for entity e at positions after `from`
Queued(cs, from, kind, e) ==
    {i \in (from + 1)..Len(cs) : cs[i].cmd = kind /\ cs[i].entity = e}

\* C12: a preview asked for a path that has a matching cached entry is served
\* from the cache at once.  preview_handler queues, for such a PreviewAsset
\* entity, one ImageNode update with the cached handle and no
\* PendingPreviewLoad, submits nothing for it, and the command is applied
\* before the tick ends; request_image_preview writes exactly one PreviewReady
\* with the cached handle and the returned task id and registers no pending
\* request.  In both cases the AssetLoader's queue, task_paths and
\* active_tasks are unchanged and no load is started.
C12_CacheHitServed ==
    /\ [][("preview_handler" \notin ran /\ "preview_handler" \in ran') =>
            /\ \A e \in Unserved(ui) :
                  (is_image_file(ui[e].preview_asset[1]) /\ CachedFor(cache, ui, e) # None) =>
                      /\ Cardinality(Queued(cmds', Len(cmds), "insert_image_node", e)) = 1
                      /\ \A i \in Queued(cmds', Len(cmds), "insert_image_node", e) :
                            cmds'[i].arg = Some(CachedFor(cache, ui, e)[1].image_handle)
                      /\ Queued(cmds', Len(cmds), "insert_pending", e) = {}
                      /\ requested'[e] = requested[e]
            /\ (\A e \in Unserved(ui) :
                   is_image_file(ui[e].preview_asset[1]) => CachedFor(cache, ui, e) # None)
                  => loader' = loader /\ load_state' = load_state
       ]_vars
    /\ [](BetweenTicks => cmds = <<>>)
    /\ [][(task_manager'.next_task_id # task_manager.next_task_id
           /\ call'.op = "request_image_preview"
           /\ get_by_path(cache, PathA, call'.resolution) # None) =>
            /\ preview_ready_events' =
                  Append(preview_ready_events,
                         PreviewReady(task_manager.next_task_id, PathA,
                                      get_by_path(cache, PathA, call'.resolution)[1].image_handle))
            /\ task_manager'.task_to_entity = task_manager.task_to_entity
            /\ UNCHANGED <<requests, cache, loader, load_state, tasks, cmds, ui>>
       ]_vars

\* both kinds of cache hit have happened: request_image_preview has just been
\* answered from the cache, and the UI entity shows a generated preview although
\* preview_handler never submitted a load for it
C12_Witness ==
    /\ call.op = "request_image_preview"
    /\ call.hit
    /\ BetweenTicks
    /\ Len(preview_ready_events) > 0
    /\ preview_ready_events[Len(preview_ready_events)].task_id = task_manager.next_task_id - 1
    /\ \E e \in DOMAIN ui :
          /\ requested[e] = <<>>
          /\ ui[e].image_node \notin {None, Some(PlaceholderHandle)}

\* C13: for a PreviewAsset entity with an image path and no cached preview,
\* preview_handler submits exactly one load task over the entity's lifetime,
\* with Preload priority, and records its id as the entity's
\* PendingPreviewLoad; nothing is submitted for an entity that is pending,
\* that already has an ImageNode (also after a failure), whose path is no
\* image or whose preview is cached; no other step submits for an entity.
C13_OneSubmission ==
    /\ [](\A e \in UIEnts : Len(requested[e]) <= 1)
    /\ [](\A e \in DOMAIN ui :
             (BetweenTicks /\ ui[e].pending # None) =>
                 requested[e] = <<ui[e].pending[1].task_id>>)
    /\ [][IF "preview_handler" \notin ran /\ "preview_handler" \in ran'
          THEN LET misses == {e \in Unserved(ui) :
                                 /\ is_image_file(ui[e].preview_asset[1])
                                 /\ CachedFor(cache, ui, e) = None}
               IN  /\ \A e \in misses :
                         LET asset_path == AssetPathFrom(ui[e].preview_asset[1])
                         IN  /\ Len(requested'[e]) = 1
                             /\ LoadTask(asset_path, "Preload", requested'[e][1])
                                    \in loader'.queue \ loader.queue
                             /\ \E i \in Queued(cmds', Len(cmds), "insert_pending", e) :
                                   cmds'[i].arg =
                                       Some(PendingPreviewLoad(requested'[e][1], asset_path))
                   /\ \A e \in UIEnts \ misses : requested'[e] = requested[e]
                   /\ Cardinality(loader'.queue \ loader.queue) = Cardinality(misses)
          ELSE requested' = requested
       ]_vars

\* the load of an entity's image failed, its PendingPreviewLoad is gone, and
\* preview_handler has run again in a later tick without submitting a second task
C13_Witness ==
    \E e \in DOMAIN ui :
       /\ Len(requested[e]) = 1
       /\ ui[e].pending = None
       /\ ui[e].preview_asset = None
       /\ ui[e].image_node = Some(PlaceholderHandle)
       /\ "preview_handler" \in ran
       /\ "handle_asset_events" \notin ran

(***************************************************************************)
(* The three task id counters side by side: the AssetLoader's methods, the *)
(* save pipeline and request_image_preview, interleaved freely             *)
(***************************************************************************)

\* what every completion and failure branch of the loader's systems calls for
\* a task that has left the queue: finish_task and cleanup_task
QRelease ==
    /\ \E task_id \in DOMAIN loader.task_paths :
          /\ \A t \in loader.queue : t.task_id # task_id
          /\ loader' = cleanup_task(finish_task(loader), task_id,
                                    HandleId(loader.task_paths[task_id]))
    /\ UNCHANGED <<queueVars, cacheVars, saveVars, previewVars, worldVars>>

NextIds ==
    \/ (loader.next_task_id < MaxTasks /\ QSubmit)
    \/ (loader.queue # {} /\ QPopNext)
    \/ QRelease
    \/ StartSaveOf("missing", PathA)
    \/ SaveTaskStep
    \/ MonitorSaveCompletion
    \/ RequestImagePreview

SpecIds == InitPreview /\ [][NextIds]_vars

\* the task ids the save pipeline has handed out and that are still visible
SaveIdsIssued ==
    {save_tasks[e].task_id : e \in DOMAIN save_tasks}
        \cup {save_completed_events[i].task_id : i \in 1..Len(save_completed_events)}

\* the task ids request_image_preview has handed out
PreviewIdsIssued ==
    {requests[e].task_id : e \in DOMAIN requests}
        \cup {preview_ready_events[i].task_id : i \in 1..Len(preview_ready_events)}
        \cup {preview_failed_events[i].task_id : i \in 1..Len(preview_failed_events)}

\* C19: the ids returned by AssetLoader.submit are 0, 1, 2, ... in the order of
\* the calls, whatever pops and releases happen in between;
\* SaveTaskTracker.create_task_id and PreviewTaskManager.create_task_id hand
\* out 0, 1, 2, ... as well; a counter never goes back, each call advances its
\* own counter by one and leaves the two other resources untouched.
C19_IdsIncreasing ==
    /\ [](/\ loader.next_task_id = Len(submitted)
          /\ \A i \in 1..Len(submitted) : submitted[i].task_id = i - 1
          /\ \A t \in loader.queue : t.task_id < loader.next_task_id
          /\ \A t \in DOMAIN loader.task_paths : t < loader.next_task_id)
    /\ [](/\ SaveIdsIssued = 0..(tracker.next_task_id - 1)
          /\ \A e \in DOMAIN save_tasks : e = <<"save", save_tasks[e].task_id>>
          /\ \A k \in DOMAIN tracker.pending_saves : k < tracker.next_task_id)
    /\ [](/\ PreviewIdsIssued = 0..(task_manager.next_task_id - 1)
          /\ \A e \in DOMAIN requests : e = RequestEntity(requests[e].task_id)
          /\ \A k \in DOMAIN task_manager.task_to_entity : k < task_manager.next_task_id)
    /\ [][/\ loader'.next_task_id \in {loader.next_task_id, loader.next_task_id + 1}
          /\ tracker'.next_task_id \in {tracker.next_task_id, tracker.next_task_id + 1}
          /\ task_manager'.next_task_id
                \in {task_manager.next_task_id, task_manager.next_task_id + 1}
          /\ loader'.next_task_id # loader.next_task_id =>
                /\ submitted' = Append(submitted, submitted'[Len(submitted')])
                /\ submitted'[Len(submitted')].task_id = loader.next_task_id
                /\ UNCHANGED <<tracker, task_manager>>
          /\ tracker'.next_task_id # tracker.next_task_id =>
                /\ <<"save", tracker.next_task_id>> \in DOMAIN save_tasks' \ DOMAIN save_tasks
                /\ DOMAIN tracker'.pending_saves =
                      DOMAIN tracker.pending_saves \cup {tracker.next_task_id}
                /\ UNCHANGED <<loader, task_manager>>
          /\ task_manager'.next_task_id # task_manager.next_task_id =>
                /\ PreviewIdsIssued' = PreviewIdsIssued \cup {task_manager.next_task_id}
                /\ UNCHANGED <<loader, tracker>>
       ]_vars

\* each counter has handed out two ids, with a pop before a submit, a release
\* and a finished save in between
C19_Witness ==
    /\ loader.next_task_id >= 2
    /\ tracker.next_task_id >= 2
    /\ task_manager.next_task_id >= 2
    /\ qlast.mixed
    /\ 0 \notin DOMAIN loader.task_paths
    /\ Len(save_completed_events) >= 1

(***************************************************************************)
(* Several PreviewAsset entities at once, under fair ticks and loads that  *)
(* all resolve                                                             *)
(***************************************************************************)

SpawnPreviewAssets == \E u \in UIEnts : SpawnPreviewAssetOf(u)

NextUI ==
    \/ SpawnPreviewAssets
    \/ EnvLoaded
    \/ EnvFailed
    \/ TickStep

\* the schedule advances: a system runs or the tick ends.  Every step of
\* TickStep is such a step and no other action changes `ran`; some system or
\* EndTick can always run.
Ticking == \E r \in SUBSET Systems : r # ran /\ ran' = r

\* ticks keep running, and a load that is in flight is eventually resolved
FairSpecUI ==
    /\ InitLoader
    /\ [][NextUI]_vars
    /\ WF_ran(Ticking)
    /\ \A id \in LoaderPaths : SF_vars(EnvLoadedOf(id) \/ EnvFailedOf(id))

\* the terminal state of a PreviewAsset entity
Terminal(u) ==
    /\ u \in DOMAIN ui
    /\ ui[u].preview_asset = None
    /\ ui[u].pending = None
    /\ ui[u].image_node # None

\* C14: every PreviewAsset entity eventually reaches the terminal state - no
\* PreviewAsset, no PendingPreviewLoad, an ImageNode present - also when
\* several entities ask for the same path before it is cached, provided ticks
\* keep running and every load resolves.
C14_EventuallyTerminal ==
    \A u \in UIEnts : (u \in DOMAIN ui) ~> Terminal(u)

\* the asset events of kind `kind` for asset `id` waiting in the reader
EventsFor(evs, kind, id) == {i \in 1..Len(evs) : evs[i].kind = kind /\ evs[i].id = id}

\* the in-flight tasks for which handle_asset_events finds a Removed event of
\* their asset and nothing earlier in the pass that resolves them
RemovedInFlight ==
    {e \in DOMAIN tasks :
        /\ EventsFor(asset_events, "Removed", tasks[e].handle) # {}
        /\ EventsFor(asset_events, "LoadedWithDependencies", tasks[e].handle) = {}
        /\ \A i \in 1..Len(load_failed_events_bevy) : load_failed_events_bevy[i] # tasks[e].handle}

\* C21: a Removed event for the asset of an in-flight task is treated as a
\* failure.  The pass of handle_asset_events that reads it writes
\* AssetLoadFailed with error AssetRemoved for the task's id, calls finish_task
\* for it, removes the task's bookkeeping and despawns its tracking entity.
C21_RemovedIsFailure ==
    [][("handle_asset_events" \notin ran /\ "handle_asset_events" \in ran') =>
          \A e \in RemovedInFlight :
             /\ \E i \in (Len(load_failed_events) + 1)..Len(load_failed_events') :
                   load_failed_events'[i] = LoadFailedEvent(tasks[e], "AssetRemoved")
             /\ finished'[tasks[e].task_id] = finished[tasks[e].task_id] + 1
             /\ tasks[e].task_id \notin DOMAIN loader'.task_paths
             /\ tasks[e].task_id \notin DOMAIN loader'.task_to_handle
             /\ \E i \in (Len(cmds) + 1)..Len(cmds') :
                   cmds'[i] = Cmd("despawn", e, None)
    ]_vars

\* the task ids waiting in the queue
QueuedIds(l) == {t.task_id : t \in l.queue}

SilentlyResolved(t) ==
    /\ BetweenTicks
    /\ \E e \in DOMAIN tasks :
          /\ tasks[e].task_id = t
          /\ load_state[tasks[e].handle] \in {"Loaded", "Failed"}
          /\ \A i \in 1..Len(asset_events) : asset_events[i].id # tasks[e].handle
          /\ \A i \in 1..Len(load_failed_events_bevy) :
                load_failed_events_bevy[i] # tasks[e].handle

\* C23: when the load state of an in-flight task has become Loaded or Failed
\* and no event of the asset system tells so, the fallback poll of the load
\* state eventually emits AssetLoadCompleted or AssetLoadFailed for the task
\* and cleans it up like the event-driven path does.
C23_FallbackResolves ==
    \A t \in TaskIds :
       SilentlyResolved(t) ~>
          /\ emitted[t] > 0
          /\ t \notin DOMAIN loader.task_paths
          /\ \A e \in DOMAIN tasks : tasks[e].task_id # t

\* C24: within a tick, process_load_queue has run before handle_asset_events
\* runs, and handle_asset_events has run before any of
\* handle_preview_load_completed, handle_preview_load_failed and
\* check_failed_loads runs; so a process_load_queue pass never follows, in
\* its tick, a handle_asset_events pass that freed a slot.
C24_TickOrder ==
    /\ "handle_asset_events" \in ran => "process_load_queue" \in ran
    /\ \A system \in {"handle_preview_load_completed", "handle_preview_load_failed",
                      "check_failed_loads"} :
          system \in ran => "handle_asset_events" \in ran

\* the cache keys of the entries whose source identity is asset `id`
EntriesOf(c, id) == {k \in DOMAIN c.path_cache : c.path_cache[k].asset_id = id}

\* C25: once handle_image_preview_events has read a Removed or a Modified event
\* of an asset, the PreviewCache holds no entry whose source identity is that
\* asset, at any resolution, so that a later lookup for it misses.
C25_InvalidatedOnChange ==
    [][("handle_image_preview_events" \notin ran /\ "handle_image_preview_events" \in ran') =>
          \A i \in 1..Len(image_events) :
             image_events[i].kind \in {"Removed", "Modified"} =>
                EntriesOf(cache', image_events[i].id) = {}
    ]_vars

(***************************************************************************)
(* The cache key derivation and its inverse on their own (preview/cache.rs) *)
(***************************************************************************)

\* the largest resolution the key round trip is tried with
MaxKeyResolution == 11

KeyResolutions == 0..MaxKeyResolution

\* paths with and without extension, with and without a parent directory,
\* with a name that already ends in _NxN, with two dots, with a label, and a
\* path without a file name
KeyPaths ==
    {PathA, PathB, PathAL,
     AssetPathFrom(<<<<"d">>, <<"a", ".", "p", "n", "g">>>>),
     AssetPathFrom(<<<<"b">>>>),
     AssetPathFrom(<<<<"a", "_", "2", "x", "2", ".", "p", "n", "g">>>>),
     AssetPathFrom(<<<<"d">>, <<"b", "_", "1", "x", "1">>>>),
     AssetPathFrom(<<<<"a", ".", "t", ".", "g">>>>),
     AssetPathFrom(<<<<"d">>, ParentDir>>)}

\* cache_path_for_resolution followed by parse_cache_path
CachePathRoundTrip ==
    /\ \E path \in KeyPaths, resolution \in KeyResolutions :
          call' = [op |-> "cache_path", path |-> path, resolution |-> resolution,
                   key |-> cache_path_for_resolution(path, resolution),
                   parsed |-> parse_cache_path(cache_path_for_resolution(path, resolution))]
    /\ UNCHANGED <<submitted, popped, qlast, cacheVars, saveVars, previewVars, loader,
                   worldVars>>

NextKeys == CachePathRoundTrip

SpecKeys == InitQueue /\ [][NextKeys]_vars

\* C26: the cache key derivation is invertible: for every asset path p and
\* every resolution r, parse_cache_path(cache_path_for_resolution(p, r))
\* returns (p, r).
C26_KeyRoundTrip ==
    call.op = "cache_path" => call.parsed = Some(<<call.path, call.resolution>>)

(***************************************************************************)
(* resize_image_for_preview on its own (preview/image.rs)                   *)
(***************************************************************************)

\* widths and heights of the source images tried: the sizes of the unit
\* test, a one-pixel edge, and two sizes of a large photograph
ImageDims == {1, 64, 200, 256, 800, 4075, 4172}

\* the target sizes tried
TargetSizes == {64, 256, 4129}

ResizeImageForPreview ==
    /\ \E width \in ImageDims, height \in ImageDims, dynamic \in BOOLEAN,
          target_size \in TargetSizes :
          LET image == [width |-> width, height |-> height, dynamic |-> dynamic]
          IN  call' = [op |-> "resize_image_for_preview", image |-> image,
                       target_size |-> target_size,
                       ret |-> resize_image_for_preview(image, target_size)]
    /\ UNCHANGED <<submitted, popped, qlast, cacheVars, saveVars, previewVars, loader,
                   worldVars>>

NextResize == ResizeImageForPreview

SpecResize == InitQueue /\ [][NextResize]_vars

\* C28: for a source of width w and height h and target t, no resize happens
\* when w <= t and h <= t; otherwise the result is (t, floor(h*t/w)) when
\* w > h and (floor(w*t/h), t) when w <= h.
C28_ResizedDimensions ==
    call.op = "resize_image_for_preview" =>
        LET w == call.image.width
            h == call.image.height
            t == call.target_size
        IN  call.ret = IF w <= t /\ h <= t THEN None
                       ELSE IF w > h THEN Some(<<t, (h * t) \div w>>)
                       ELSE Some(<<(w * t) \div h, t>>)

(***************************************************************************)
(* generate_previews_for_resolutions called directly on caches that        *)
(* already hold some of the resolutions (preview/image.rs); the id of an   *)
(* asset is its path, a.png being the 800x200 image and the others 64x64   *)
(***************************************************************************)

\* the resolution lists passed: some resolutions missing, a repeated one, one
\* the 64x64 source needs no resize for, and the empty list
ResolutionLists == {<<1, 2>>, <<2, 1, 2>>, <<0, 64>>, <<64>>, <<>>}

\* the resolutions of `resolutions` that get_by_path does not find in c
Missing(c, path, resolutions) ==
    {r \in Range(resolutions) : get_by_path(c, path, Some(r)) = None}

GeneratePreviewsForResolutions ==
    /\ nops < MaxCacheOps
    /\ \E path \in CachePaths, resolutions \in ResolutionLists :
          LET asset_id == path
              original == ImageOf(nops)
              timestamp == Elapsed(nops)
              fresh == {<<path, r>> : r \in Missing(cache, path, resolutions)}
              after == generate_previews_for_resolutions(cache, original, path, asset_id,
                                                         resolutions, timestamp)
          IN  /\ cache' = after
              /\ cached' = [q \in DOMAIN cached \cup fresh |->
                               IF q \in fresh
                               THEN [image_handle |->
                                         get_by_path(after, q[1], Some(q[2]))[1].image_handle,
                                     asset_id |-> asset_id, timestamp |-> timestamp]
                               ELSE cached[q]]
              /\ cop' = [NoOp EXCEPT !.op = "generate_previews_for_resolutions",
                                     !.path = Some(path), !.asset_id = Some(asset_id),
                                     !.image = Some(original), !.timestamp = Some(timestamp),
                                     !.resolution = resolutions, !.ret = Some(cache),
                                     !.len_before = len(cache)]
    /\ nops' = nops + 1
    /\ UNCHANGED <<loader, queueVars, saveVars, previewVars, worldVars>>

NextGenerate == GeneratePreviewsForResolutions \/ CacheRemoveByPath

SpecGenerate == InitCache /\ [][NextGenerate]_vars

C30_LoadedServedAtOnce ==
    [][(task_manager'.next_task_id # task_manager.next_task_id
        /\ call'.op = "request_image_preview"
        /\ get_by_path(cache, PathA, call'.resolution) = None
        /\ load_state[HandleId(PathA)] = "Loaded") =>
            /\ \A i \in 1..Len(ConfigResolutions) :
                  get_by_path(cache', PathA, Some(ConfigResolutions[i])) # None
            /\ Len(preview_ready_events') = Len(preview_ready_events) + 1
            /\ preview_ready_events'[Len(preview_ready_events')].task_id
                  = task_manager.next_task_id
            /\ preview_ready_events'[Len(preview_ready_events')].path = PathA
            /\ SubSeq(preview_ready_events', 1, Len(preview_ready_events))
                  = preview_ready_events
            /\ task_manager'.task_to_entity = task_manager.task_to_entity
            /\ requests' = requests
       ]_vars

\* the last request missed the cache while its image was loaded, and the
\* PreviewReady of its task id is the last one written
C30_Witness ==
    /\ call.op = "request_image_preview"
    /\ ~call.hit
    /\ call.loaded
    /\ preview_ready_events # <<>>
    /\ preview_ready_events[Len(preview_ready_events)].task_id
          = task_manager.next_task_id - 1
    /\ task_manager.next_task_id - 1 \notin DOMAIN task_manager.task_to_entity
    /\ \A i \in 1..Len(ConfigResolutions) :
          get_by_path(cache, PathA, Some(ConfigResolutions[i])) # None

(***************************************************************************)
(* 3D previews (preview/model.rs): application code spawns a               *)
(* PendingPreviewRequest for a model file, a material or a mesh, in image  *)
(* mode, and registers it with the PreviewTaskManager.  The record of a    *)
(* request entity also holds its other components: `added` (the request is *)
(* new to process_3d_preview_requests), `scene` (PreviewScene3D: None when *)
(* absent, else Some(preview_entity)), `waiting` (WaitingForScreenshot),   *)
(* and two histories: `scenes` counts the create_preview_scene calls made  *)
(* for it and `screenshots` the Screenshot components put on its camera.   *)
(* The                                                                     *)
(* asset server writes AssetEvent<Scene>, <StandardMaterial> or <Mesh> for *)
(* these assets; no system of the plugin reads them.                       *)
(***************************************************************************)

\* the asset the 3D requests ask a preview of
ModelPath == AssetPathFrom(<<<<"m", ".", "g", "l", "b">>>>)

RequestTypes3D == {"ModelFile", "Material", "Mesh"}

\* lib.rs:65-78: process_3d_preview_requests and wait_for_asset_load are
\* chained, with a command sync point between them
Systems3D == {"handle_image_preview_events", "process_3d_preview_requests", "sync_3d",
              "wait_for_asset_load", "capture_preview_screenshot"}

\* config.resolutions.iter().max().copied().unwrap_or(256)
preview_resolution ==
    IF ConfigResolutions = <<>> THEN 256
    ELSE CHOOSE r \in Range(ConfigResolutions) : \A x \in Range(ConfigResolutions) : x <= r

\* scene_assets.get(handle), materials.get(handle), meshes.get(handle)
AssetAvailable(ls, path) == ls[path] = "Loaded"

\* the entity of a 3D request as application code spawns it
Request3D(task_id, path, request_type) ==
    [task_id |-> task_id, path |-> path, request_type |-> request_type, mode |-> "Image",
     added |-> TRUE, scene |-> None, waiting |-> FALSE, scenes |-> 0, screenshots |-> 0]

\* a plausible slip: the 2D requests are not skipped
Process3DRequestAnyType(st, q, c, ls, entity) ==
    LET request == q[entity]
        cache_entry == get_by_path(c, request.path, Some(preview_resolution))
    IN  IF FALSE THEN st
        ELSE IF request.mode = "Image" /\ cache_entry # None
        THEN [st EXCEPT !.task_manager = remove_task(@, request.task_id),
                        !.ready = Append(@, PreviewReady(request.task_id, request.path,
                                                         cache_entry[1].image_handle)),
                        !.cmds = Append(@, Cmd("despawn_request", entity, None))]
        ELSE IF AssetAvailable(ls, request.path)
        THEN \* the preview entity is spawned; in image mode wait for a screenshot
             [st EXCEPT !.created = @ \cup {entity},
                        !.cmds = @ \o
                 <<Cmd("insert_scene", entity, Some(Some(entity)))>> \o
                 (IF request.mode = "Image"
                  THEN <<Cmd("insert_waiting", entity, None)>> ELSE <<>>)]
        ELSE \* asset not loaded yet: a scene without preview entity
             [st EXCEPT !.created = @ \cup {entity},
                        !.cmds = Append(@, Cmd("insert_scene", entity, Some(None)))]

\* one iteration of process_3d_preview_requests' loop; st = [task_manager,
\* ready, cmds, created], created being the entities a scene was created for
Process3DRequest(st, q, c, ls, entity) ==
    LET request == q[entity]
        cache_entry == get_by_path(c, request.path, Some(preview_resolution))
    IN  IF request.request_type = "Image2D" THEN st
        ELSE IF request.mode = "Image" /\ cache_entry # None
        THEN [st EXCEPT !.task_manager = remove_task(@, request.task_id),
                        !.ready = Append(@, PreviewReady(request.task_id, request.path,
                                                         cache_entry[1].image_handle)),
                        !.cmds = Append(@, Cmd("despawn_request", entity, None))]
        ELSE IF AssetAvailable(ls, request.path)
        THEN \* the preview entity is spawned; in image mode wait for a screenshot
             [st EXCEPT !.created = @ \cup {entity},
                        !.cmds = @ \o
                 <<Cmd("insert_scene", entity, Some(Some(entity)))>> \o
                 (IF request.mode = "Image"
                  THEN <<Cmd("insert_waiting", entity, None)>> ELSE <<>>)]
        ELSE \* asset not loaded yet: a scene without preview entity
             [st EXCEPT !.created = @ \cup {entity},
                        !.cmds = Append(@, Cmd("insert_scene", entity, Some(None)))]

RECURSIVE Process3DLoop(_, _, _, _, _)
Process3DLoop(st, q, c, ls, order) ==
    IF order = <<>> THEN st
    ELSE Process3DLoop(Process3DRequest(st, q, c, ls, Head(order)), q, c, ls, Tail(order))

\* a plausible slip: the spawned preview entity is not recorded in the scene
WaitForAssetUnrecorded(st, ls, entity) ==
    LET request == st.requests[entity]
    IN  IF request.scene[1] # None THEN st
        ELSE IF ~AssetAvailable(ls, request.path) THEN st
        ELSE [st EXCEPT !.cmds = @ \o (IF request.mode = "Image"
                                       THEN <<Cmd("insert_waiting", entity, None)>> ELSE <<>>)]

\* one iteration of wait_for_asset_load's loop; st = [requests, cmds]: the
\* scene is written in place, the insert is deferred
WaitForAsset(st, ls, entity) ==
    LET request == st.requests[entity]
    IN  IF request.scene[1] # None THEN st
        ELSE IF ~AssetAvailable(ls, request.path) THEN st
        ELSE [requests |-> [st.requests EXCEPT ![entity].scene = Some(Some(entity))],
              cmds |-> st.cmds \o (IF request.mode = "Image"
                                   THEN <<Cmd("insert_waiting", entity, None)>> ELSE <<>>)]

RECURSIVE WaitForAssetLoop(_, _, _)
WaitForAssetLoop(st, ls, order) ==
    IF order = <<>> THEN st
    ELSE WaitForAssetLoop(WaitForAsset(st, ls, Head(order)), ls, Tail(order))

\* the commands of capture_preview_screenshot for the entities of `order`
RECURSIVE CaptureCommands(_)
CaptureCommands(order) ==
    IF order = <<>> THEN <<>>
    ELSE <<Cmd("insert_screenshot", Head(order), None),
           Cmd("remove_waiting", Head(order), None)>> \o CaptureCommands(Tail(order))

Init3D ==
    /\ CacheIdle
    /\ loader = AssetLoaderNew
    /\ QueueIdle
    /\ SaveIdle
    /\ PreviewIdle
    /\ image_events = <<>>
    /\ requested = [u \in UIEnts |-> <<>>]
    /\ tasks = EmptyMap
    /\ ui = EmptyMap
    /\ cmds = <<>>
    /\ load_state = [a \in {ModelPath} |-> "NotLoaded"]
    /\ asset_events = <<>>
    /\ load_failed_events_bevy = <<>>
    /\ load_completed_events = <<>>
    /\ load_failed_events = <<>>
    /\ hot_reload_events = <<>>
    /\ ran = {}
    /\ admitted = {}
    /\ emitted = [t \in TaskIds |-> 0]
    /\ finished = [t \in TaskIds |-> 0]
    /\ doomed = [fresh |-> {}, settled |-> {}]
    /\ schedule = Systems3D

\* application code loads the asset and asks for its preview between two ticks
Request3DPreview ==
    /\ BetweenTicks
    /\ task_manager.next_task_id < MaxRequests
    /\ \E request_type \in RequestTypes3D :
          LET task_id == task_manager.next_task_id
              entity == RequestEntity(task_id)
          IN  /\ task_manager' = manager_register_task(create_task_id(task_manager),
                                                       task_id, entity)
              /\ requests' = (entity :> Request3D(task_id, ModelPath, request_type))
                                 @@ requests
    /\ load_state' = server_load(load_state, ModelPath)
    /\ UNCHANGED <<cacheVars, queueVars, saveVars, preview_ready_events,
                   preview_failed_events, loader, tasks, ui, cmds, asset_events,
                   load_failed_events_bevy, load_completed_events, load_failed_events,
                   hot_reload_events, ran, admitted, emitted, finished, doomed,
                   image_events, requested, schedule>>

\* the asset server finishes the load of the model
EnvModelLoaded ==
    /\ BetweenTicks
    /\ load_state[ModelPath] = "Loading"
    /\ load_state' = [load_state EXCEPT ![ModelPath] = "Loaded"]
    /\ UNCHANGED <<cacheVars, queueVars, saveVars, previewVars, loader, tasks, ui, cmds,
                   asset_events, load_failed_events_bevy, load_completed_events,
                   load_failed_events, hot_reload_events, ran, admitted, emitted,
                   finished, doomed, image_events, requested, schedule>>

\* the loaded model is removed from its Assets collection
EnvModelRemoved ==
    /\ BetweenTicks
    /\ load_state[ModelPath] = "Loaded"
    /\ load_state' = [load_state EXCEPT ![ModelPath] = "Removed"]
    /\ UNCHANGED <<cacheVars, queueVars, saveVars, previewVars, loader, tasks, ui, cmds,
                   asset_events, load_failed_events_bevy, load_completed_events,
                   load_failed_events, hot_reload_events, ran, admitted, emitted,
                   finished, doomed, image_events, requested, schedule>>

\* system process_3d_preview_requests
Process3DPreviewRequests ==
    /\ "process_3d_preview_requests" \in schedule \ ran
    /\ \E order \in Orders({e \in DOMAIN requests :
                               /\ requests[e].added
                               /\ ~HasScene(requests[e])
                               /\ ~requests[e].waiting}) :
       \E st \in {Process3DLoop([task_manager |-> task_manager, ready |-> <<>>,
                                 cmds |-> cmds, created |-> {}],
                                requests, cache, load_state, order)} :
          /\ task_manager' = st.task_manager
          /\ preview_ready_events' = preview_ready_events \o st.ready
          /\ cmds' = st.cmds
          /\ requests' = [e \in DOMAIN requests |->
                             [requests[e] EXCEPT
                                 !.added = FALSE,
                                 !.scenes = IF e \in st.created THEN @ + 1 ELSE @]]
    /\ Ran("process_3d_preview_requests")
    /\ UNCHANGED <<cacheVars, queueVars, saveVars, preview_failed_events, loader, tasks, ui,
                   load_state, asset_events, load_failed_events_bevy,
                   load_completed_events, load_failed_events, hot_reload_events,
                   admitted, emitted, finished, doomed, image_events, requested, schedule>>

\* the command sync point of the chain
Sync3D ==
    /\ "sync_3d" \in schedule \ ran
    /\ "process_3d_preview_requests" \in ran
    /\ LET w == ApplyCommands([tasks |-> tasks, ui |-> ui, requests |-> requests], cmds)
       IN  /\ tasks' = w.tasks
           /\ ui' = w.ui
           /\ requests' = w.requests
    /\ cmds' = <<>>
    /\ Ran("sync_3d")
    /\ UNCHANGED <<cacheVars, queueVars, saveVars, task_manager, preview_ready_events,
                   preview_failed_events, loader, load_state, asset_events,
                   load_failed_events_bevy, load_completed_events, load_failed_events,
                   hot_reload_events, admitted, emitted, finished, doomed, image_events,
                   requested, schedule>>

\* system wait_for_asset_load
WaitForAssetLoad ==
    /\ "wait_for_asset_load" \in schedule \ ran
    /\ "sync_3d" \in ran
    /\ \E order \in Orders({e \in DOMAIN requests : HasScene(requests[e])}) :
       \E st \in {WaitForAssetLoop([requests |-> requests, cmds |-> cmds],
                                   load_state, order)} :
          /\ requests' = st.requests
          /\ cmds' = st.cmds
    /\ Ran("wait_for_asset_load")
    /\ UNCHANGED <<cacheVars, queueVars, saveVars, task_manager, preview_ready_events,
                   preview_failed_events, loader, tasks, ui, load_state, asset_events,
                   load_failed_events_bevy, load_completed_events, load_failed_events,
                   hot_reload_events, admitted, emitted, finished, doomed, image_events,
                   requested, schedule>>

\* system capture_preview_screenshot
CapturePreviewScreenshot ==
    /\ "capture_preview_screenshot" \in schedule \ ran
    /\ \E order \in Orders({e \in DOMAIN requests :
                               HasScene(requests[e]) /\ requests[e].waiting}) :
          cmds' = cmds \o CaptureCommands(order)
    /\ Ran("capture_preview_screenshot")
    /\ UNCHANGED <<cacheVars, queueVars, saveVars, previewVars, loader, tasks, ui,
                   load_state, asset_events, load_failed_events_bevy,
                   load_completed_events, load_failed_events, hot_reload_events,
                   admitted, emitted, finished, doomed, image_events, requested, schedule>>

\* a step of the schedule of the 3D previews; handle_preview_screenshots is
\* not added to the schedule (lib.rs:80-81)
Tick3D ==
    \/ HandleImagePreviewEvents
    \/ Process3DPreviewRequests
    \/ Sync3D
    \/ WaitForAssetLoad
    \/ CapturePreviewScreenshot
    \/ EndTick

Next3D ==
    \/ Request3DPreview
    \/ EnvModelLoaded
    \/ EnvModelRemoved
    \/ Tick3D

\* ticks keep running and a load that was started finishes
FairSpec3D ==
    /\ Init3D
    /\ [][Next3D]_vars
    /\ WF_vars(Tick3D)
    /\ WF_vars(EnvModelLoaded)

\* the request of task id t has reached a terminal state and is released
Terminal3D(t) ==
    /\ \/ \E i \in 1..Len(preview_ready_events) : preview_ready_events[i].task_id = t
       \/ \E i \in 1..Len(preview_failed_events) : preview_failed_events[i].task_id = t
    /\ t \notin DOMAIN task_manager.task_to_entity

\* C29: every 3D preview request (model file, material or mesh) in image mode
\* eventually reaches a terminal state, Ready (PreviewReady emitted with its
\* task id) once its asset has loaded or Failed (PreviewFailed emitted) if the
\* asset is removed while the request is pending, and its pending-request
\* record is released from PreviewTaskManager.
C29_3DRequestTerminates ==
    \A t \in 0..(MaxRequests - 1) :
        (t \in DOMAIN task_manager.task_to_entity) ~> Terminal3D(t)

\* C31: between ticks, each in-flight task with tracking record (task_id,
\* handle) satisfies task_to_handle[task_id] = the handle's id and
\* handle_to_entity[that id] = the task's own tracking entity, also when two
\* in-flight tasks were submitted for the same path.
C31_RegistryResolves ==
    BetweenTicks =>
        \A e \in DOMAIN tasks :
            /\ get_handle_id_by_task(loader, tasks[e].task_id) = Some(tasks[e].handle)
            /\ get_entity_by_handle(loader, tasks[e].handle) = Some(e)

\* C32: remove_by_path(p, Some(r)) touches at most the single entry (p, r) and
\* returns it: every other resolution of p and every entry of every other
\* path stays retrievable and unchanged, len() drops by exactly 1 if the entry
\* existed, and if it did not exist the call returns none and leaves both
\* indexes unchanged.
C32_RemoveOneResolution ==
    [][(cop'.op = "remove_by_path" /\ nops' = nops + 1 /\ cop'.resolution # None) =>
        LET p == cop'.path[1]
            r == cop'.resolution[1]
            entry == get_by_path(cache, p, Some(r))
        IN  /\ cop'.ret = entry
            /\ \A r2 \in Resolutions \ {r} :
                  get_by_path(cache', p, Some(r2)) = get_by_path(cache, p, Some(r2))
            /\ \A q \in CachePaths \ {p} : \A r2 \in Resolutions :
                  get_by_path(cache', q, Some(r2)) = get_by_path(cache, q, Some(r2))
            /\ len(cache') = IF entry # None THEN len(cache) - 1 ELSE len(cache)
            /\ entry = None => cache' = cache
    ]_vars

\* C39: cache entries of distinct asset paths are independent: for any two
\* different asset paths p and q, inserting, overwriting or removing entries
\* for p never changes what get_by_path(q, r) or get_all_by_path(q) returns.
C39_PathsIndependent ==
    [][(cop'.op \in {"insert", "remove_by_path"} /\ nops' = nops + 1) =>
        \A q \in CachePaths \ {cop'.path[1]} :
            /\ \A r \in OptResolutions : get_by_path(cache', q, r) = get_by_path(cache, q, r)
            /\ get_all_by_path(cache', q) = get_all_by_path(cache, q)
    ]_vars

\* the recorded entries give every path one identity and every identity one path
OneIdentityPerPath(ch) ==
    \A p1, p2 \in DOMAIN ch : (p1[1] = p2[1]) <=> (ch[p1].asset_id = ch[p2].asset_id)

\* C37: path and identity queries agree: for every entry inserted as (path,
\* id, res), get_by_path(path, Some(res)) and get_by_id(id, Some(res)) return
\* the same entry, and get_by_path(path, None) and get_by_id(id, None) return
\* the same highest-resolution entry, after any sequence of inserts and
\* removals (here: whenever each cached path has its own identity).
C37_QueriesAgree ==
    OneIdentityPerPath(cached) =>
        \A pr \in DOMAIN cached :
            /\ get_by_path(cache, pr[1], Some(pr[2]))
                  = get_by_id(cache, cached[pr].asset_id, Some(pr[2]))
            /\ get_by_path(cache, pr[1], None) = get_by_id(cache, cached[pr].asset_id, None)

Spec3D == Init3D /\ [][Next3D]_vars

\* the stage of a 3D request: pending, scene created, waiting for the
\* screenshot, screenshot requested
Stage3D(request) ==
    IF request.screenshots > 0 THEN 3
    ELSE IF request.waiting THEN 2
    ELSE IF HasScene(request) THEN 1
    ELSE 0

\* C33: every 3D preview request passes the states Pending, SceneCreated,
\* WaitingForScreenshot in order: WaitingForScreenshot is present, and a
\* screenshot is requested, only when the render scene exists and the asset
\* has loaded and been spawned into it (preview_entity is set); the render
\* scene is created at most once per request and at most one screenshot is
\* requested per request.
C33_StagesInOrder ==
    /\ [](\A e \in DOMAIN requests :
             /\ (requests[e].waiting \/ requests[e].screenshots > 0) =>
                    /\ HasScene(requests[e])
                    /\ requests[e].scene[1] # None
                    /\ load_state[requests[e].path] \in {"Loaded", "Removed"}
             /\ HasScene(requests[e]) => requests[e].scenes = 1
             /\ requests[e].scenes <= 1
             /\ requests[e].screenshots <= 1)
    /\ [][\A e \in DOMAIN requests \cap DOMAIN requests' :
             /\ Stage3D(requests'[e]) >= Stage3D(requests[e])
             /\ HasScene(requests[e]) => HasScene(requests'[e])
             /\ (HasScene(requests[e]) /\ requests[e].scene[1] # None)
                   => requests'[e].scene = requests[e].scene
         ]_vars

\* one request had its screenshot requested; another one, made after the
\* asset was removed, has its scene and waits for the asset
C33_Witness ==
    \E e1, e2 \in DOMAIN requests :
        /\ requests[e1].screenshots = 1
        /\ ~requests[e1].waiting
        /\ HasScene(requests[e2])
        /\ requests[e2].scene[1] = None
        /\ requests[e2].scenes = 1

(***************************************************************************)
(* The specification of both preview paths: application code asks for 2D   *)
(* previews with request_image_preview and spawns 3D requests, images and  *)
(* the model load and are removed between ticks, and the image system runs *)
(* in one schedule with the 3D systems (lib.rs:60-78), in any order except *)
(* for the chained pair.  handle_asset_events reads the asset events too.  *)
(***************************************************************************)

SystemsBoth == Systems3D \cup {"handle_asset_events"}

InitBoth ==
    /\ CacheIdle
    /\ loader = AssetLoaderNew
    /\ QueueIdle
    /\ SaveIdle
    /\ PreviewIdle
    /\ image_events = <<>>
    /\ requested = [u \in UIEnts |-> <<>>]
    /\ tasks = EmptyMap
    /\ ui = EmptyMap
    /\ cmds = <<>>
    /\ load_state = [a \in LoaderPaths \cup {ModelPath} |-> "NotLoaded"]
    /\ asset_events = <<>>
    /\ load_failed_events_bevy = <<>>
    /\ load_completed_events = <<>>
    /\ load_failed_events = <<>>
    /\ hot_reload_events = <<>>
    /\ ran = {}
    /\ admitted = {}
    /\ emitted = [t \in TaskIds |-> 0]
    /\ finished = [t \in TaskIds |-> 0]
    /\ doomed = [fresh |-> {}, settled |-> {}]
    /\ schedule = SystemsBoth

NextBoth ==
    \/ RequestImagePreview
    \/ Request3DPreview
    \/ EnvLoaded
    \/ EnvRemoved
    \/ EnvModelLoaded
    \/ EnvModelRemoved
    \/ HandleAssetEventsSystem
    \/ Tick3D

SpecBoth == InitBoth /\ [][NextBoth]_vars

\* the commands and the events a step adds
NewCmds == SubSeq(cmds', Len(cmds) + 1, Len(cmds'))
NewReady == SubSeq(preview_ready_events', Len(preview_ready_events) + 1,
                   Len(preview_ready_events'))
NewFailed == SubSeq(preview_failed_events', Len(preview_failed_events) + 1,
                    Len(preview_failed_events'))

\* the request entities of 2D image requests, and the task ids of a set of
\* request entities
Requests2D == {e \in DOMAIN requests : requests[e].request_type = "Image2D"}
TasksOf(es) == {requests[e].task_id : e \in es}

\* the step runs system `name`
Runs(name) == name \notin ran /\ ran' = ran \cup {name}

\* C40: no pending request of type Image2D ever carries a PreviewScene3D (or
\* any other component of the 3D pipeline), so the unreachable!() branches of
\* the 3D systems are never reached; the 3D systems leave the 2D requests
\* alone and handle_image_preview_events leaves the 3D requests alone.
C40_PathsSeparate ==
    /\ [](\A e \in Requests2D :
             /\ ~HasScene(requests[e])
             /\ ~requests[e].waiting
             /\ requests[e].scenes = 0
             /\ requests[e].screenshots = 0)
    /\ [][/\ (\/ Runs("process_3d_preview_requests")
              \/ Runs("wait_for_asset_load")
              \/ Runs("capture_preview_screenshot")) =>
                 /\ \A i \in 1..Len(NewCmds) : NewCmds[i].entity \notin Requests2D
                 /\ \A i \in 1..Len(NewReady) : NewReady[i].task_id \notin TasksOf(Requests2D)
                 /\ \A e \in Requests2D :
                       /\ e \in DOMAIN requests'
                       /\ requests'[e] \in {requests[e], [requests[e] EXCEPT !.added = FALSE]}
                       /\ requests[e].task_id \in DOMAIN task_manager'.task_to_entity
                            <=> requests[e].task_id \in DOMAIN task_manager.task_to_entity
          /\ Runs("handle_image_preview_events") =>
                 /\ \A i \in 1..Len(NewCmds) : NewCmds[i].entity \in Requests2D
                 /\ \A i \in 1..Len(NewReady) : NewReady[i].task_id \in TasksOf(Requests2D)
                 /\ \A i \in 1..Len(NewFailed) : NewFailed[i].task_id \in TasksOf(Requests2D)
                 /\ \A e \in DOMAIN requests \ Requests2D :
                       requests[e].task_id \in DOMAIN task_manager'.task_to_entity
                            <=> requests[e].task_id \in DOMAIN task_manager.task_to_entity
         ]_vars

\* a 2D request was served by the image path while a 3D request, pending in
\* the same tick, got its scene from the 3D path
C40_Witness ==
    /\ \E i \in 1..Len(cmds) : cmds[i].cmd = "despawn_request" /\ cmds[i].entity \in Requests2D
    /\ \E e \in DOMAIN requests \ Requests2D : HasScene(requests[e])

(***************************************************************************)
(* The image path with two images of one file: a.png and its sub-asset     *)
(* a.png#L are requested with request_image_preview and load between       *)
(* ticks; handle_image_preview_events serves the pending requests.         *)
(***************************************************************************)

LabelPaths == {PathA, PathAL}

SystemsImage == {"handle_image_preview_events", "handle_asset_events"}

InitLabels ==
    /\ CacheIdle
    /\ loader = AssetLoaderNew
    /\ QueueIdle
    /\ SaveIdle
    /\ PreviewIdle
    /\ image_events = <<>>
    /\ requested = [u \in UIEnts |-> <<>>]
    /\ tasks = EmptyMap
    /\ ui = EmptyMap
    /\ cmds = <<>>
    /\ load_state = [a \in LabelPaths |-> "NotLoaded"]
    /\ asset_events = <<>>
    /\ load_failed_events_bevy = <<>>
    /\ load_completed_events = <<>>
    /\ load_failed_events = <<>>
    /\ hot_reload_events = <<>>
    /\ ran = {}
    /\ admitted = {}
    /\ emitted = [t \in TaskIds |-> 0]
    /\ finished = [t \in TaskIds |-> 0]
    /\ doomed = [fresh |-> {}, settled |-> {}]
    /\ schedule = SystemsImage

RequestLabelPreview == \E path \in LabelPaths : RequestImagePreviewOf(path)

EnvLabelLoaded == \E id \in LabelPaths : EnvLoadedOf(id)

NextLabels ==
    \/ RequestLabelPreview
    \/ EnvLabelLoaded
    \/ HandleAssetEventsSystem
    \/ HandleImagePreviewEvents
    \/ EndTick

SpecLabels == InitLabels /\ [][NextLabels]_vars

\* the state handle_image_preview_events starts from
HandlerState ==
    [cache |-> cache, load_state |-> load_state, task_manager |-> task_manager,
     ready |-> <<>>, failed |-> <<>>, cmds |-> cmds]

\* the entries of c made from the asset of `path`
OwnEntries(c, path) == {c.path_cache[k] : k \in EntriesOf(c, HandleId(path))}

\* PreviewReady `ev` is emitted with cache c: the cache holds an entry of the
\* event's path at every configured resolution and the event carries the
\* image of the path's entry of highest resolution
NotifiedAfterUpdate(c, ev) ==
    /\ \A r \in Range(ConfigResolutions) :
          /\ get_by_path(c, ev.path, Some(r)) # None
          /\ get_by_path(c, ev.path, Some(r))[1] \in OwnEntries(c, ev.path)
    /\ \E entry \in OwnEntries(c, ev.path) :
          /\ \A other \in OwnEntries(c, ev.path) : other.resolution <= entry.resolution
          /\ ev.image_handle = entry.image_handle

\* the handler's state before it reads the k-th unread event
BeforeEvent(k, order) ==
    handle_image_preview_events(HandlerState, requests, SubSeq(image_events, 1, k - 1),
                                order, Elapsed(nops))

\* between two successive iterations over the requests, an emitted PreviewReady
\* finds the cache updated
EmittedAfterUpdate(prev, st) ==
    Len(st.ready) > Len(prev.ready) => NotifiedAfterUpdate(st.cache, st.ready[Len(st.ready)])

\* C34: whenever handle_image_preview_events emits PreviewReady for a path on
\* a loaded event, the cache at that moment holds an entry for the path at
\* every configured resolution and the event's image handle is the path's
\* highest-resolution cached entry.  The handler's run is followed event by
\* event and request by request, in every order of the query.
C34_CacheBeforeNotification ==
    "handle_image_preview_events" \in schedule \ ran =>
        \A order \in Orders({e \in DOMAIN requests : ~HasScene(requests[e])}) :
        \A k \in 1..Len(image_events) :
        \A j \in 1..Len(order) :
            image_events[k].kind = "LoadedWithDependencies" =>
                EmittedAfterUpdate(
                    ImageEventRequests(BeforeEvent(k, order), requests, image_events[k],
                                       SubSeq(order, 1, j - 1), Elapsed(nops)),
                    ImageEventRequests(BeforeEvent(k, order), requests, image_events[k],
                                       SubSeq(order, 1, j), Elapsed(nops)))

\* the state handle_asset_events has reached before it reads the k-th unread
\* asset event
BeforeAssetEvent(k) ==
    HandleAssetEvents(
        HandleLoadFailedEvents([loader |-> loader, completed |-> <<>>, failed |-> <<>>,
                                hot |-> <<>>, cmds |-> <<>>, fin |-> <<>>],
                               tasks, load_failed_events_bevy),
        tasks, SubSeq(asset_events, 1, k - 1))

\* the tasks in flight for asset `id` when the handler is in state st: admitted,
\* and not released before or during the run
InFlightAt(st, id) ==
    {t \in admitted : /\ finished[t] = 0
                      /\ \A i \in 1..Len(st.fin) : st.fin[i] # t
                      /\ t \in DOMAIN loader.task_paths
                      /\ HandleId(loader.task_paths[t]) = id}

\* the handling of one asset event, from state `before` to state `after`
OnlySignalsChangeBookkeeping(before, event, after) ==
    LET inflight == InFlightAt(before, event.id)
        new_hot == SubSeq(after.hot, Len(before.hot) + 1, Len(after.hot))
        Untouched == /\ after.loader = before.loader
                     /\ after.cmds = before.cmds
                     /\ after.fin = before.fin
                     /\ after.completed = before.completed
                     /\ after.failed = before.failed
    IN  /\ (event.kind = "Modified" /\ inflight # {}) =>
              /\ Untouched
              /\ \A t \in inflight : EventsOf(new_hot, t) = 1
              /\ \A i \in 1..Len(new_hot) : new_hot[i].task_id \in inflight
        /\ inflight = {} => Untouched /\ new_hot = <<>>

\* C35: handle_asset_events changes the loader's bookkeeping only for an
\* in-flight task that receives a loaded, load-failed or removed signal: a
\* Modified event for an in-flight task emits one AssetHotReloaded with the
\* task's id and leaves the task in flight, an asset event whose id has no
\* in-flight task emits nothing, and in both cases the loader (active_tasks,
\* queue, task_paths, registry maps) and the tracking entities are unchanged.
C35_OnlySignalsChangeBookkeeping ==
    "handle_asset_events" \notin ran =>
        \A k \in 1..Len(asset_events) :
            OnlySignalsChangeBookkeeping(
                BeforeAssetEvent(k), asset_events[k],
                HandleAssetEvents(BeforeAssetEvent(k), tasks, <<asset_events[k]>>))

\* the save tasks started with a handle that has no image data
MissingSource == {e \in DOMAIN save_tasks : save_tasks[e].task.image \notin DOMAIN SaveImages}

\* C36: a save whose source handle has no backing image data ends with
\* ImageNotFound and makes no call on the writer (no create_directory, no
\* write_bytes, nothing encoded); the failure is reported through exactly one
\* SaveCompleted event, and the tracker entry and the tracking entity are
\* cleared.
C36_MissingImageReported ==
    /\ [](\A e \in MissingSource :
             LET t == save_tasks[e].task
             IN  /\ t.calls = <<>>
                 /\ ~t.encoded
                 /\ t.result \in {None, Some("ImageNotFound")})
    /\ [][\A e \in MissingSource :
             e \notin DOMAIN save_tasks' =>
                 LET id == save_tasks[e].task_id
                     new == {i \in SaveEventsOf(save_completed_events', id) :
                                i > Len(save_completed_events)}
                 IN  /\ Cardinality(new) = 1
                     /\ \A i \in new : save_completed_events'[i].result = "ImageNotFound"
                     /\ SaveEventsOf(save_completed_events, id) = {}
                     /\ id \notin DOMAIN tracker'.pending_saves
         ]_vars
    /\ \A id \in 0..(MaxSaves - 1) :
          (\E e \in MissingSource : save_tasks[e].task_id = id)
          ~> [](/\ Cardinality({i \in SaveEventsOf(save_completed_events, id) :
                                   save_completed_events[i].result = "ImageNotFound"}) = 1
                /\ Cardinality(SaveEventsOf(save_completed_events, id)) = 1
                /\ id \notin DOMAIN tracker.pending_saves
                /\ \A e \in DOMAIN save_tasks : save_tasks[e].task_id # id)

\* two saves of a handle without data have been reported and released
C36_Witness ==
    /\ save_tasks = EmptyMap
    /\ pending_count(tracker) = 0
    /\ Len(save_completed_events) = 2
    /\ \A i \in 1..Len(save_completed_events) : save_completed_events[i].result = "ImageNotFound"

\* C38: in every state observed between ticks, active_tasks equals the number
\* of existing ActiveLoadTask tracking entities; every admission adds one to
\* both, and every completion or failure removes one from both, the released
\* entity being that of the task whose slot was freed.
C38_SlotsMatchEntities ==
    BetweenTicks =>
        /\ loader.active_tasks = Cardinality(DOMAIN tasks)
        /\ \A e \in DOMAIN tasks : finished[tasks[e].task_id] = 0
        /\ \A t \in admitted : finished[t] = 0 => \E e \in DOMAIN tasks : tasks[e].task_id = t

====
